---- MODULE Spec2Model ----
(***************************************************************************)
(* A model of the LibrePad UDP protocol engine (librepad_udp.py) and of    *)
(* the device registry it borrows devices from (device_registry.py).       *)
(*                                                                         *)
(* Scheduling.  The server is a single asyncio event loop.  A datagram is  *)
(* handled by datagram_received synchronously, to completion.  The only    *)
(* deferred work is what the handlers hand to asyncio.create_task: the     *)
(* device acquisition of CONNECT and the registry release of DISCONNECT    *)
(* and SESSION_END.  create_task appends to the loop's ready queue, which  *)
(* is first in, first out; when the next datagram is handled relative to   *)
(* the queued tasks is not fixed by the code, so the model lets datagrams  *)
(* and queued tasks interleave freely.                                     *)
(*                                                                         *)
(* DeviceRegistry.acquire and release take an asyncio.Lock, and no await   *)
(* occurs while it is held; an uncontended asyncio.Lock is taken without   *)
(* suspending.  Each registry call therefore runs from its first line to   *)
(* its return without another coroutine running in between, and is one     *)
(* step of the model.                                                      *)
(***************************************************************************)
EXTENDS Integers, Sequences, FiniteSets, TLC

(***************************************************************************)
(* Bounds of the model.                                                    *)
(***************************************************************************)
\* The number of datagrams handled in a run; it also bounds the sessions, the
\* queue, the devices constructed and the refcounts.
MaxDatagrams == 4
\* The number of direct registry calls in a run.
MaxCalls == 6
\* The number of records in a BATCH payload.
MaxRecords == 3
\* The number of bytes after event_count in a BATCH payload of any bytes.
MaxBody == 6

(***************************************************************************)
(* Inputs.                                                                 *)
(***************************************************************************)
Addrs == {"A", "B"}
\* Device type strings a CONNECT payload or a registry caller may carry.
DeviceTypes == {"standard", "Mouse", "keyboard"}
Malformed == "<malformed>"

(***************************************************************************)
(* Program constants.                                                      *)
(***************************************************************************)
FirstSessionId == 1000
NoDevice == 0
\* DeviceRegistry._load_platform_constructors on Linux.
constructors == {"standard", "mouse"}

\* str.lower() on the device type strings of the model.
Lower(name) ==
  CASE name = "Mouse" -> "mouse"
    [] name = "STANDARD" -> "standard"
    [] OTHER -> name

VARIABLES
  sessions,          \* LibrePadUDPProtocol.sessions: session id -> Session
  addr_to_session,   \* LibrePadUDPProtocol.addr_to_session
  next_session_id,   \* LibrePadUDPProtocol.next_session_id
  tasks,             \* the event loop's queue of tasks made by create_task
  instances,         \* DeviceRegistry._instances: key -> device
  client_counts,     \* DeviceRegistry._client_counts: key -> int
  devs,              \* every device constructed so far, with its close() calls
  issued,            \* the session ids handed out, in order
  undisconnected,    \* the sessions whose last CONNECT no DISCONNECT has followed
  seen,              \* the session whose last_seen the last step set, 0 if none
  received,          \* the number of datagrams handled (registry calls made) so far
  sent,              \* the frames the last step gave to transport.sendto
  device_calls,      \* the calls the last step made on devices, in order
  records,           \* the BUTTON records a run sends batched and one by one
  batch_out,         \* what the BATCH datagram with the records did
  single_out,        \* what the BUTTON datagrams sent so far did
  handlers,          \* the locals of the WebSocket / WebRTC connection handlers
  ret                \* what the last direct registry call returned or raised

engineVars == <<sessions, addr_to_session, next_session_id, tasks, issued, undisconnected>>
regVars == <<instances, client_counts, devs>>
trialVars == <<records, batch_out, single_out>>
vars == <<sessions, addr_to_session, next_session_id, tasks, instances,
          client_counts, devs, issued, undisconnected, received, sent, ret,
          device_calls, records, batch_out, single_out, seen, handlers>>

(***************************************************************************)
(* Dictionaries.                                                           *)
(***************************************************************************)
Put(f, k, v) == [x \in DOMAIN f \cup {k} |-> IF x = k THEN v ELSE f[x]]
Del(f, k) == [x \in DOMAIN f \ {k} |-> f[x]]
Empty == [x \in {} |-> 0]
Max(a, b) == IF a >= b THEN a ELSE b

(***************************************************************************)
(* Device registry.                                                        *)
(***************************************************************************)
\* What a registry call raises: nothing, the KeyError of line 75 for a type
\* with no constructor, the exception of a failing device constructor, or the
\* KeyError of reading _client_counts[key] for a key it does not hold.
NoError == "none"
UnknownType == "KeyError: unknown controller type"
CtorFailed == "constructor failed"
MissingCount == "KeyError: client count"

Reg(inst, cnt, dv, raised, device) ==
  [instances |-> inst, client_counts |-> cnt, devs |-> dv,
   raised |-> raised, device |-> device]

\* acquire without the test of line 79: a device is constructed on every call.
acquire_always_creates(inst, cnt, dv, name, ctorOk) ==
  LET key == Lower(name) IN
  IF key \notin constructors THEN Reg(inst, cnt, dv, UnknownType, NoDevice)
  ELSE IF ~ctorOk THEN Reg(inst, cnt, dv, CtorFailed, NoDevice)
  ELSE
    LET dv1 == Append(dv, [key |-> key, closes |-> 0])
        inst1 == Put(inst, key, Len(dv1))
        cnt1 == Put(cnt, key, 0)
    IN Reg(inst1, Put(cnt1, key, cnt1[key] + 1), dv1, NoError, inst1[key])

\* DeviceRegistry.acquire.  ctorOk: whether the device constructor (uinput)
\* succeeds should it be called.
acquire(inst, cnt, dv, name, ctorOk) ==
  LET key == Lower(name) IN
  IF key \notin constructors THEN Reg(inst, cnt, dv, UnknownType, NoDevice)
  ELSE IF key \notin DOMAIN inst /\ ~ctorOk THEN Reg(inst, cnt, dv, CtorFailed, NoDevice)
  ELSE
    LET create == key \notin DOMAIN inst
        dv1 == IF create THEN Append(dv, [key |-> key, closes |-> 0]) ELSE dv
        inst1 == IF create THEN Put(inst, key, Len(dv1)) ELSE inst
        cnt1 == IF create THEN Put(cnt, key, 0) ELSE cnt
    IN IF key \notin DOMAIN cnt1 THEN Reg(inst1, cnt1, dv1, MissingCount, NoDevice)
       ELSE Reg(inst1, Put(cnt1, key, cnt1[key] + 1), dv1, NoError, inst1[key])

\* release that forgets the client count: every release destroys the device.
release_ignores_count(inst, cnt, dv, name) ==
  LET key == Lower(name) IN
  IF key \notin DOMAIN inst THEN Reg(inst, cnt, dv, NoError, NoDevice)
  ELSE Reg(Del(inst, key), Del(cnt, key),
           [dv EXCEPT ![inst[key]].closes = @ + 1], NoError, NoDevice)

\* release without the test of lines 95-96: a key with no instance gets a
\* count of 0.
release_counts_absent(inst, cnt, dv, name) ==
  LET key == Lower(name) IN
  IF key \notin DOMAIN inst THEN Reg(inst, Put(cnt, key, 0), dv, NoError, NoDevice)
  ELSE IF key \notin DOMAIN cnt THEN Reg(inst, cnt, dv, MissingCount, NoDevice)
  ELSE
    LET c == Max(0, cnt[key] - 1) IN
    IF c = 0
    THEN Reg(Del(inst, key), Del(cnt, key),
             [dv EXCEPT ![inst[key]].closes = @ + 1], NoError, NoDevice)
    ELSE Reg(inst, Put(cnt, key, c), dv, NoError, NoDevice)

\* release without the `del self._client_counts[key]` of line 106.
release_keeps_count(inst, cnt, dv, name) ==
  LET key == Lower(name) IN
  IF key \notin DOMAIN inst THEN Reg(inst, cnt, dv, NoError, NoDevice)
  ELSE IF key \notin DOMAIN cnt THEN Reg(inst, cnt, dv, MissingCount, NoDevice)
  ELSE
    LET c == Max(0, cnt[key] - 1) IN
    IF c = 0
    THEN Reg(Del(inst, key), Put(cnt, key, c),
             [dv EXCEPT ![inst[key]].closes = @ + 1], NoError, NoDevice)
    ELSE Reg(inst, Put(cnt, key, c), dv, NoError, NoDevice)

\* DeviceRegistry.release.
release(inst, cnt, dv, name) ==
  LET key == Lower(name) IN
  IF key \notin DOMAIN inst THEN Reg(inst, cnt, dv, NoError, NoDevice)
  ELSE IF key \notin DOMAIN cnt THEN Reg(inst, cnt, dv, MissingCount, NoDevice)
  ELSE
    LET c == Max(0, cnt[key] - 1) IN
    IF c = 0
    THEN Reg(Del(inst, key), Del(cnt, key),
             [dv EXCEPT ![inst[key]].closes = @ + 1], NoError, NoDevice)
    ELSE Reg(inst, Put(cnt, key, c), dv, NoError, NoDevice)

\* DeviceRegistry.get.
get(inst, name) ==
  IF Lower(name) \in DOMAIN inst THEN inst[Lower(name)] ELSE NoDevice

Refcount(key) == IF key \in DOMAIN client_counts THEN client_counts[key] ELSE 0

SetReg(r) ==
  /\ instances' = r.instances
  /\ client_counts' = r.client_counts
  /\ devs' = r.devs

(***************************************************************************)
(* Frames.                                                                 *)
(***************************************************************************)
\* _send_message: the packet is the 12-byte header, with the flags it is
\* given (0 by default), and the payload right after it; extension is the
\* number of bytes between the two.
Frame(addr, msg_type, session_id, info) ==
  [to |-> addr, msg_type |-> msg_type, session_id |-> session_id, info |-> info,
   flags |-> 0, extension |-> 0]

\* Capability bits, and a | b on bytes.
CAP_ACK == 1
CAP_TIMESTAMP == 2
CAP_BATCH == 8
CAP_FEEDBACK == 16
RECURSIVE BitOr(_, _)
BitOr(a, b) ==
  IF a = 0 THEN b
  ELSE IF b = 0 THEN a
  ELSE (IF a % 2 = 1 \/ b % 2 = 1 THEN 1 ELSE 0) + 2 * BitOr(a \div 2, b \div 2)

\* _send_welcome: after the session id the payload carries the accepted
\* capabilities and the device catalogue.
Welcome(addr, session_id, accepted_caps, devices) ==
  [to |-> addr, msg_type |-> "WELCOME", session_id |-> session_id, info |-> "standard",
   flags |-> 0, extension |-> 0, accepted_caps |-> accepted_caps, devices |-> devices]
\* A variant whose catalogue holds an entry only while the registry has a
\* live "standard" instance.
send_welcome_of_live_devices(addr, session_id) ==
  <<Welcome(addr, session_id, BitOr(BitOr(CAP_ACK, CAP_TIMESTAMP), CAP_BATCH),
            IF "standard" \in DOMAIN instances
            THEN <<[device_type |-> "standard", device_id |-> 0]>> ELSE <<>>)>>
send_welcome(addr, session_id) ==
  <<Welcome(addr, session_id, BitOr(BitOr(CAP_ACK, CAP_TIMESTAMP), CAP_BATCH),
            <<[device_type |-> "standard", device_id |-> 0]>>)>>
\* _send_pong passes the flags of the PING on to _send_message.
send_pong(addr, session_id, flags) ==
  <<[Frame(addr, "PONG", session_id, "") EXCEPT !.flags = flags]>>
send_status(addr, session_id) == <<Frame(addr, "STATUS", session_id, "device connected")>>
\* _send_error: the message length goes into one byte; bytes([n]) raises
\* ValueError for n > 255, which _send_error catches and logs (line 771), and
\* then no frame is sent.
MaxMessage == 255
send_error(addr, session_id, error_type, message) ==
  IF Len(message) > MaxMessage THEN <<>>
  ELSE <<Frame(addr, "ERROR", session_id, error_type)>>

(***************************************************************************)
(* Protocol engine.                                                        *)
(***************************************************************************)
Session(addr) == [client_addr |-> addr, device |-> NoDevice, device_type |-> ""]

ConnectTask(sid, device_type, addr) ==
  [kind |-> "connect", sid |-> sid, device_type |-> device_type, addr |-> addr]
ReleaseTask(device_type) ==
  [kind |-> "release", sid |-> 0, device_type |-> device_type, addr |-> ""]

\* datagram_received, lines 191-193: the last_seen update looks the sender's
\* session up in the session table and raises KeyError when the address maps
\* to a session that is gone; the exception is caught at line 205.
StaleAddr(addr) ==
  /\ addr \in DOMAIN addr_to_session
  /\ addr_to_session[addr] \notin DOMAIN sessions

\* datagram_received without the except clause of line 205: the KeyError of
\* the last_seen update ends the call and nothing is sent.
datagram_received_uncaught(addr, Handler) ==
  IF StaleAddr(addr)
  THEN /\ sent' = <<>>
       /\ device_calls' = <<>>
       /\ seen' = 0
       /\ UNCHANGED <<engineVars, regVars, ret>>
  ELSE /\ seen' = IF addr \in DOMAIN addr_to_session THEN addr_to_session[addr] ELSE 0
       /\ Handler
\* datagram_received for a datagram of the supported version: Handler is the
\* effect of _dispatch_message.
datagram_received(addr, Handler) ==
  IF StaleAddr(addr)
  THEN /\ sent' = send_error(addr, 0, "InternalError", ToString(addr_to_session[addr]))
       /\ device_calls' = <<>>
       /\ seen' = 0
       /\ UNCHANGED <<engineVars, regVars, ret>>
  ELSE /\ seen' = IF addr \in DOMAIN addr_to_session THEN addr_to_session[addr] ELSE 0
       /\ Handler

\* datagram_received for a datagram shorter than the 12 bytes of the header.
packet_too_small(addr) ==
  /\ sent' = <<>>
  /\ device_calls' = <<>>
  /\ seen' = 0
  /\ UNCHANGED <<engineVars, regVars, ret>>

\* A variant that tests the version after the last_seen update.
version_checked_late(addr) ==
  /\ sent' = IF StaleAddr(addr)
             THEN send_error(addr, 0, "InternalError", ToString(addr_to_session[addr]))
             ELSE send_error(addr, 0, "UnsupportedVersion", "Protocol version not supported")
  /\ device_calls' = <<>>
  /\ seen' = IF addr \in DOMAIN addr_to_session /\ ~StaleAddr(addr)
             THEN addr_to_session[addr] ELSE 0
  /\ UNCHANGED <<engineVars, regVars, ret>>
\* datagram_received for a datagram of 12 bytes or more whose version byte is
\* not PROTOCOL_VERSION.
unsupported_version(addr) ==
  /\ sent' = send_error(addr, 0, "UnsupportedVersion", "Protocol version not supported")
  /\ device_calls' = <<>>
  /\ seen' = 0
  /\ UNCHANGED <<engineVars, regVars, ret>>

handle_ping(addr, session_id, flags) ==
  /\ sent' = send_pong(addr, session_id, flags)
  /\ device_calls' = <<>>
  /\ UNCHANGED <<engineVars, regVars, ret>>

\* The last branch of _dispatch_message.
unknown_message(addr, session_id) ==
  /\ sent' = send_error(addr, session_id, "UnknownMessage", "Message type 0x7f not supported")
  /\ device_calls' = <<>>
  /\ UNCHANGED <<engineVars, regVars, ret>>

\* A variant that hands out the smallest id no active session holds.
SmallestFreeSessionId(next) ==
  CHOOSE n \in FirstSessionId..next :
    /\ n \notin DOMAIN sessions
    /\ \A m \in FirstSessionId..(n - 1) : m \in DOMAIN sessions
\* The id a new session gets, and the next one.
NewSessionId(next) == next
BumpSessionId(next) == next + 1

\* A variant in which a HELLO ends the session its address had before.
handle_hello_replaces(addr, wellFormed) ==
  /\ device_calls' = <<>>
  /\ IF ~wellFormed
     THEN /\ sent' = send_error(addr, 0, "InvalidMessage", "Invalid HELLO payload")
          /\ UNCHANGED <<engineVars, regVars, ret>>
     ELSE LET session_id == NewSessionId(next_session_id)
              kept == IF addr \in DOMAIN addr_to_session /\ addr_to_session[addr] \in DOMAIN sessions
                      THEN Del(sessions, addr_to_session[addr]) ELSE sessions
          IN
          /\ next_session_id' = BumpSessionId(next_session_id)
          /\ sessions' = Put(kept, session_id, Session(addr))
          /\ addr_to_session' = Put(addr_to_session, addr, session_id)
          /\ issued' = Append(issued, session_id)
          /\ sent' = send_welcome(addr, session_id)
          /\ UNCHANGED <<tasks, undisconnected, regVars, ret>>
handle_hello(addr, wellFormed) ==
  /\ device_calls' = <<>>
  /\ IF ~wellFormed
     THEN /\ sent' = send_error(addr, 0, "InvalidMessage", "Invalid HELLO payload")
          /\ UNCHANGED <<engineVars, regVars, ret>>
     ELSE LET session_id == NewSessionId(next_session_id) IN
          /\ next_session_id' = BumpSessionId(next_session_id)
          /\ sessions' = Put(sessions, session_id, Session(addr))
          /\ addr_to_session' = Put(addr_to_session, addr, session_id)
          /\ issued' = Append(issued, session_id)
          /\ sent' = send_welcome(addr, session_id)
          /\ UNCHANGED <<tasks, undisconnected, regVars, ret>>

\* A variant without the session test of line 296.
handle_connect_any_session(addr, session_id, payload) ==
  /\ device_calls' = <<>>
  /\ IF payload = Malformed
     THEN /\ sent' = send_error(addr, session_id, "ConnectFailed", "Invalid CONNECT payload")
          /\ UNCHANGED <<engineVars, regVars, ret>>
     ELSE /\ tasks' = Append(tasks, ConnectTask(session_id, payload, addr))
          /\ undisconnected' = undisconnected \cup {session_id}
          /\ sent' = <<>>
          /\ UNCHANGED <<sessions, addr_to_session, next_session_id, issued, regVars, ret>>
handle_connect(addr, session_id, payload) ==
  /\ device_calls' = <<>>
  /\ IF session_id \notin DOMAIN sessions \/ payload = Malformed
     THEN /\ sent' = send_error(addr, session_id, "ConnectFailed",
                                IF session_id \notin DOMAIN sessions THEN "Unknown session"
                                ELSE "Invalid CONNECT payload")
          /\ UNCHANGED <<engineVars, regVars, ret>>
     ELSE /\ tasks' = Append(tasks, ConnectTask(session_id, payload, addr))
          /\ undisconnected' = undisconnected \cup {session_id}
          /\ sent' = <<>>
          /\ UNCHANGED <<sessions, addr_to_session, next_session_id, issued, regVars, ret>>

\* str(e) of what acquire raised: the KeyError of device_registry.py line 75
\* carries the requested name, and str() of a KeyError is the repr of its
\* argument, with quotes.
str(raised, name) ==
  IF raised = UnknownType
  THEN "\"Unknown controller type '" \o name \o "'. Available: standard, mouse\""
  ELSE raised

\* The Session object the task holds stays alive after SESSION_END removed it
\* from the table; writing to it then changes nothing the engine reads again.
async_connect_device(t, ctorOk) ==
  LET r == acquire(instances, client_counts, devs, t.device_type, ctorOk) IN
  /\ SetReg(r)
  /\ device_calls' = <<>>
  /\ IF r.raised # NoError
     THEN /\ sent' = send_error(t.addr, t.sid, "ConnectFailed", str(r.raised, t.device_type))
          /\ UNCHANGED sessions
     ELSE /\ sessions' = IF t.sid \in DOMAIN sessions
                         THEN [sessions EXCEPT ![t.sid].device = r.device,
                                               ![t.sid].device_type = t.device_type]
                         ELSE sessions
          /\ sent' = send_status(t.addr, t.sid)
  /\ UNCHANGED <<addr_to_session, next_session_id, issued, undisconnected>>

release_task(t) ==
  /\ SetReg(release(instances, client_counts, devs, t.device_type))
  /\ sent' = <<>>
  /\ device_calls' = <<>>
  /\ UNCHANGED <<sessions, addr_to_session, next_session_id, issued, undisconnected>>

\* A variant that schedules the release and leaves session.device set.
handle_disconnect_keeps_device(addr, session_id) ==
  /\ sent' = <<>>
  /\ device_calls' = <<>>
  /\ undisconnected' = undisconnected \ {session_id}
  /\ IF session_id \in DOMAIN sessions
        /\ sessions[session_id].device # NoDevice
        /\ sessions[session_id].device_type # ""
     THEN /\ tasks' = Append(tasks, ReleaseTask(sessions[session_id].device_type))
          /\ UNCHANGED sessions
     ELSE UNCHANGED <<tasks, sessions>>
  /\ UNCHANGED <<addr_to_session, next_session_id, issued, regVars, ret>>
handle_disconnect(addr, session_id) ==
  /\ sent' = <<>>
  /\ device_calls' = <<>>
  /\ undisconnected' = undisconnected \ {session_id}
  /\ IF session_id \in DOMAIN sessions
        /\ sessions[session_id].device # NoDevice
        /\ sessions[session_id].device_type # ""
     THEN /\ tasks' = Append(tasks, ReleaseTask(sessions[session_id].device_type))
          /\ sessions' = [sessions EXCEPT ![session_id].device = NoDevice]
     ELSE UNCHANGED <<tasks, sessions>>
  /\ UNCHANGED <<addr_to_session, next_session_id, issued, regVars, ret>>

handle_session_end(addr, session_id) ==
  /\ sent' = <<>>
  /\ device_calls' = <<>>
  /\ IF session_id \notin DOMAIN sessions
     THEN UNCHANGED <<tasks, sessions, addr_to_session>>
     ELSE /\ tasks' = IF sessions[session_id].device # NoDevice
                         /\ sessions[session_id].device_type # ""
                      THEN Append(tasks, ReleaseTask(sessions[session_id].device_type))
                      ELSE tasks
          /\ sessions' = Del(sessions, session_id)
          /\ addr_to_session' = IF addr \in DOMAIN addr_to_session
                                THEN Del(addr_to_session, addr)
                                ELSE addr_to_session
  /\ UNCHANGED <<next_session_id, issued, undisconnected, regVars, ret>>


(***************************************************************************)
(* Payload bytes.  Offsets count from 0, as in the code.                   *)
(***************************************************************************)
\* struct.unpack('<H', ...) and struct.unpack('<h', ...) of two bytes.
u16(lo, hi) == lo + 256 * hi
i16(lo, hi) == IF u16(lo, hi) >= 32768 THEN u16(lo, hi) - 65536 ELSE u16(lo, hi)
Abs(x) == IF x < 0 THEN 0 - x ELSE x
\* payload[k] and payload[a:b].
At(payload, k) == payload[k + 1]
Slice(payload, a, b) == SubSeq(payload, a + 1, IF b <= Len(payload) THEN b ELSE Len(payload))

CTRL_BTN_A == 1
CTRL_BTN_R3 == 17
CTRL_AXIS_LX == 257
CTRL_AXIS_DPAD_Y == 264
CTRL_MOUSE_LEFT == 513
CTRL_MOUSE_RIGHT == 514
CTRL_MOUSE_MIDDLE == 515

ButtonNames ==
  <<"a", "b", "x", "y", "l1", "r1", "l2_click", "r2_click", "dpad_up", "dpad_down",
    "dpad_left", "dpad_right", "back", "start", "guide", "l3", "r3">>
AxisNames == <<"lx", "ly", "rx", "ry", "lt", "rt", "dpad_x", "dpad_y">>
MouseButtonNames == <<"left", "right", "middle">>

CONTROL_CODE_MAP ==
  [c \in CTRL_BTN_A..CTRL_BTN_R3 |-> [kind |-> "button", name |-> ButtonNames[c - CTRL_BTN_A + 1]]]
  @@ [c \in CTRL_AXIS_LX..CTRL_AXIS_DPAD_Y |-> [kind |-> "axis", name |-> AxisNames[c - CTRL_AXIS_LX + 1]]]
  @@ [c \in CTRL_MOUSE_LEFT..CTRL_MOUSE_MIDDLE |->
        [kind |-> "button", name |-> MouseButtonNames[c - CTRL_MOUSE_LEFT + 1]]]

IsKind(control_code, kind) ==
  control_code \in DOMAIN CONTROL_CODE_MAP /\ CONTROL_CODE_MAP[control_code].kind = kind

(***************************************************************************)
(* Device calls.  A call is recorded when it is made, whether or not the   *)
(* device then raises (the handlers catch and log what it raises).         *)
(***************************************************************************)
DeviceCall(device, method, name, pressed, a, b) ==
  [device |-> device, method |-> method, name |-> name, pressed |-> pressed, a |-> a, b |-> b]

\* hasattr(session.device, attr): MouseController has move_relative and scroll,
\* StandardGamepad has neither.
HasAttr(device, attr) ==
  attr \in (IF devs[device].key = "mouse"
            THEN {"set_button", "set_axis", "move_relative", "scroll"}
            ELSE {"set_button", "set_axis"})

\* The session's device when a handler may use it, NoDevice when the handler
\* raises ValueError (unknown session, no device, short payload).
DeviceFor(payload, session_id, size) ==
  IF session_id \in DOMAIN sessions /\ Len(payload) >= size
  THEN sessions[session_id].device
  ELSE NoDevice

\* The event handlers: the device calls each makes.
handle_button(payload, session_id) ==
  LET device == DeviceFor(payload, session_id, 5)
      control_code == u16(At(payload, 2), At(payload, 3))
  IN IF device = NoDevice \/ ~IsKind(control_code, "button") THEN <<>>
     ELSE <<DeviceCall(device, "set_button", CONTROL_CODE_MAP[control_code].name,
                       At(payload, 4) # 0, 0, 0)>>

\* value / 32767.0 clamped to [-1.0, 1.0], in units of 1/32767.
\* A variant without the clamp.
Normalize_unclamped(value) == value
Normalize(value) == IF value < 0 - 32767 THEN 0 - 32767 ELSE value

handle_axis(payload, session_id) ==
  LET device == DeviceFor(payload, session_id, 6)
      control_code == u16(At(payload, 2), At(payload, 3))
  IN IF device = NoDevice \/ ~IsKind(control_code, "axis") THEN <<>>
     ELSE <<DeviceCall(device, "set_axis", CONTROL_CODE_MAP[control_code].name, FALSE,
                       Normalize(i16(At(payload, 4), At(payload, 5))), 0)>>

handle_mouse_move(payload, session_id) ==
  LET device == DeviceFor(payload, session_id, 4)
      dx == i16(At(payload, 0), At(payload, 1))
      dy == i16(At(payload, 2), At(payload, 3))
  IN IF device = NoDevice THEN <<>>
     ELSE IF HasAttr(device, "move_relative")
     THEN <<DeviceCall(device, "move_relative", "", FALSE, dx, dy)>>
     ELSE (IF dx # 0 THEN <<DeviceCall(device, "set_axis", "dx", FALSE, dx, 0)>> ELSE <<>>)
          \o (IF dy # 0 THEN <<DeviceCall(device, "set_axis", "dy", FALSE, dy, 0)>> ELSE <<>>)

handle_mouse_button(payload, session_id) ==
  LET device == DeviceFor(payload, session_id, 3)
      control_code == u16(At(payload, 0), At(payload, 1))
  IN IF device = NoDevice \/ ~IsKind(control_code, "button") THEN <<>>
     ELSE <<DeviceCall(device, "set_button", CONTROL_CODE_MAP[control_code].name,
                       At(payload, 2) # 0, 0, 0)>>

handle_mouse_scroll(payload, session_id) ==
  LET device == DeviceFor(payload, session_id, 4)
      scroll_x == i16(At(payload, 0), At(payload, 1))
      scroll_y == i16(At(payload, 2), At(payload, 3))
      hwheel == IF scroll_x # 0
                THEN <<DeviceCall(device, "set_axis", "hwheel", FALSE, scroll_x, 0)>>
                ELSE <<>>
  IN IF device = NoDevice THEN <<>>
     ELSE IF HasAttr(device, "scroll")
     THEN (IF scroll_y # 0 THEN <<DeviceCall(device, "scroll", "", FALSE, scroll_y, 0)>> ELSE <<>>)
          \o hwheel
     ELSE (IF scroll_y # 0
           THEN <<DeviceCall(device, "set_axis", "wheel", FALSE, scroll_y, 0)>>
           ELSE <<>>)
          \o hwheel

(***************************************************************************)
(* The batch decoder, _handle_batch.                                       *)
(***************************************************************************)
\* A variant that tries MOUSE_BUTTON before MOUSE_MOVE.
batch_rule_button_before_move(payload, offset) ==
  LET n == Len(payload) IN
  IF offset + 5 <= n /\ IsKind(u16(At(payload, offset + 2), At(payload, offset + 3)), "button")
  THEN "button"
  ELSE IF offset + 6 <= n
          /\ IsKind(u16(At(payload, offset + 2), At(payload, offset + 3)), "axis")
  THEN "axis"
  ELSE IF offset + 3 <= n
          /\ u16(At(payload, offset), At(payload, offset + 1))
               \in {CTRL_MOUSE_LEFT, CTRL_MOUSE_RIGHT, CTRL_MOUSE_MIDDLE}
  THEN "mouse_button"
  ELSE IF offset + 4 <= n
          /\ Abs(i16(At(payload, offset), At(payload, offset + 1))) <= 1000
          /\ Abs(i16(At(payload, offset + 2), At(payload, offset + 3))) <= 1000
  THEN "mouse_move"
  ELSE "none"
\* A variant that tries MOUSE_MOVE before the other interpretations.
batch_rule_move_first(payload, offset) ==
  LET n == Len(payload) IN
  IF offset + 4 <= n
     /\ Abs(i16(At(payload, offset), At(payload, offset + 1))) <= 1000
     /\ Abs(i16(At(payload, offset + 2), At(payload, offset + 3))) <= 1000
  THEN "mouse_move"
  ELSE IF offset + 5 <= n
          /\ IsKind(u16(At(payload, offset + 2), At(payload, offset + 3)), "button")
  THEN "button"
  ELSE IF offset + 6 <= n
          /\ IsKind(u16(At(payload, offset + 2), At(payload, offset + 3)), "axis")
  THEN "axis"
  ELSE "none"
\* A variant that tries MOUSE_SCROLL before MOUSE_MOVE.
batch_rule_scroll_before_move(payload, offset) ==
  LET n == Len(payload) IN
  IF offset + 5 <= n /\ IsKind(u16(At(payload, offset + 2), At(payload, offset + 3)), "button")
  THEN "button"
  ELSE IF offset + 6 <= n
          /\ IsKind(u16(At(payload, offset + 2), At(payload, offset + 3)), "axis")
  THEN "axis"
  ELSE IF offset + 4 <= n
          /\ ( i16(At(payload, offset), At(payload, offset + 1)) # 0
               \/ i16(At(payload, offset + 2), At(payload, offset + 3)) # 0 )
          /\ Abs(i16(At(payload, offset), At(payload, offset + 1))) <= 100
          /\ Abs(i16(At(payload, offset + 2), At(payload, offset + 3))) <= 100
  THEN "mouse_scroll"
  ELSE IF offset + 4 <= n
          /\ Abs(i16(At(payload, offset), At(payload, offset + 1))) <= 1000
          /\ Abs(i16(At(payload, offset + 2), At(payload, offset + 3))) <= 1000
  THEN "mouse_move"
  ELSE IF offset + 3 <= n
          /\ u16(At(payload, offset), At(payload, offset + 1))
               \in {CTRL_MOUSE_LEFT, CTRL_MOUSE_RIGHT, CTRL_MOUSE_MIDDLE}
  THEN "mouse_button"
  ELSE "none"
\* The interpretation the decoder takes at an offset: the first of the five
\* whose bytes are there and whose test passes, "none" when none does.
batch_rule(payload, offset) ==
  LET n == Len(payload) IN
  IF offset + 5 <= n /\ IsKind(u16(At(payload, offset + 2), At(payload, offset + 3)), "button")
  THEN "button"
  ELSE IF offset + 6 <= n
          /\ IsKind(u16(At(payload, offset + 2), At(payload, offset + 3)), "axis")
  THEN "axis"
  ELSE IF offset + 4 <= n
          /\ Abs(i16(At(payload, offset), At(payload, offset + 1))) <= 1000
          /\ Abs(i16(At(payload, offset + 2), At(payload, offset + 3))) <= 1000
  THEN "mouse_move"
  ELSE IF offset + 3 <= n
          /\ u16(At(payload, offset), At(payload, offset + 1))
               \in {CTRL_MOUSE_LEFT, CTRL_MOUSE_RIGHT, CTRL_MOUSE_MIDDLE}
  THEN "mouse_button"
  ELSE IF offset + 4 <= n
          /\ ( i16(At(payload, offset), At(payload, offset + 1)) # 0
               \/ i16(At(payload, offset + 2), At(payload, offset + 3)) # 0 )
          /\ Abs(i16(At(payload, offset), At(payload, offset + 1))) <= 100
          /\ Abs(i16(At(payload, offset + 2), At(payload, offset + 3))) <= 100
  THEN "mouse_scroll"
  ELSE "none"

\* A variant that takes six bytes for a BUTTON event, as for an AXIS event.
event_size_of_axis(rule) ==
  CASE rule \in {"button", "axis"} -> 6
    [] rule \in {"mouse_move", "mouse_scroll"} -> 4
    [] rule = "mouse_button" -> 3
    [] OTHER -> 1
\* The bytes the decoder advances by.
event_size(rule) ==
  CASE rule = "button" -> 5
    [] rule = "axis" -> 6
    [] rule \in {"mouse_move", "mouse_scroll"} -> 4
    [] rule = "mouse_button" -> 3
    [] OTHER -> 1

batch_event(rule, payload, session_id) ==
  CASE rule = "button" -> handle_button(payload, session_id)
    [] rule = "axis" -> handle_axis(payload, session_id)
    [] rule = "mouse_move" -> handle_mouse_move(payload, session_id)
    [] rule = "mouse_button" -> handle_mouse_button(payload, session_id)
    [] rule = "mouse_scroll" -> handle_mouse_scroll(payload, session_id)
    [] OTHER -> <<>>

\* The loop over range(event_count), from its i-th round on.
RECURSIVE batch_loop(_, _, _, _, _)
RECURSIVE batch_loop_discards_for_free(_, _, _, _, _)
\* A variant in which a discarded byte does not use up a round.
batch_loop_discards_for_free(payload, session_id, i, offset, out) ==
  IF i >= At(payload, 0) \/ offset >= Len(payload) THEN out
  ELSE LET rule == batch_rule(payload, offset)
           size == event_size(rule)
           made == batch_event(rule, Slice(payload, offset, offset + size), session_id)
       IN batch_loop_discards_for_free(payload, session_id,
                     IF rule = "none" THEN i ELSE i + 1, offset + size,
                     [calls |-> out.calls \o made,
                      events |-> Append(out.events, [rule |-> rule, offset |-> offset]),
                      events_processed |-> out.events_processed + (IF rule = "none" THEN 0 ELSE 1),
                      discarded |-> out.discarded + (IF rule = "none" THEN 1 ELSE 0)])
batch_loop(payload, session_id, i, offset, out) ==
  IF i >= At(payload, 0) \/ offset >= Len(payload) THEN out
  ELSE LET rule == batch_rule(payload, offset)
           size == event_size(rule)
           made == batch_event(rule, Slice(payload, offset, offset + size), session_id)
       IN batch_loop(payload, session_id, i + 1, offset + size,
                     [calls |-> out.calls \o made,
                      events |-> Append(out.events, [rule |-> rule, offset |-> offset]),
                      events_processed |-> out.events_processed + (IF rule = "none" THEN 0 ELSE 1),
                      discarded |-> out.discarded + (IF rule = "none" THEN 1 ELSE 0)])

handle_batch(payload, session_id) ==
  LET none == [calls |-> <<>>, events |-> <<>>, events_processed |-> 0, discarded |-> 0] IN
  IF session_id \notin DOMAIN sessions \/ Len(payload) < 1 THEN none
  ELSE batch_loop(payload, session_id, 0, 1, none)

\* What the dispatch of an event message does: the device calls, no reply.
event_message(calls) ==
  /\ device_calls' = calls
  /\ sent' = <<>>
  /\ UNCHANGED <<engineVars, regVars, ret>>

(***************************************************************************)
(* The engine's steps.                                                     *)
(***************************************************************************)
\* The session ids a header may carry: those handed out so far, and one that
\* never names a session.
SessionIds == {FirstSessionId - 1} \cup {issued[i] : i \in 1..Len(issued)}

Receive ==
  /\ received < MaxDatagrams
  /\ received' = received + 1
  /\ UNCHANGED <<trialVars, handlers>>

Hello(addr, wellFormed) ==
  /\ Receive
  /\ datagram_received(addr, handle_hello(addr, wellFormed))

Connect(addr, session_id, payload) ==
  /\ Receive
  /\ datagram_received(addr, handle_connect(addr, session_id, payload))

Disconnect(addr, session_id) ==
  /\ Receive
  /\ datagram_received(addr, handle_disconnect(addr, session_id))

SessionEnd(addr, session_id) ==
  /\ Receive
  /\ datagram_received(addr, handle_session_end(addr, session_id))

\* The event loop runs the task at the head of its queue.  Neither coroutine
\* suspends (see the head of the module), so the task runs to its end.
RunTaskWith(ctorOk) ==
  /\ tasks # <<>>
  /\ tasks' = Tail(tasks)
  /\ seen' = 0
  /\ UNCHANGED <<ret, received, trialVars, handlers>>
  /\ IF Head(tasks).kind = "connect"
     THEN async_connect_device(Head(tasks), ctorOk)
     ELSE release_task(Head(tasks))

RunTask == \E ctorOk \in BOOLEAN : RunTaskWith(ctorOk)

StartState ==
  /\ sessions = Empty
  /\ addr_to_session = Empty
  /\ next_session_id = FirstSessionId
  /\ tasks = <<>>
  /\ instances = Empty
  /\ client_counts = Empty
  /\ devs = <<>>
  /\ issued = <<>>
  /\ undisconnected = {}
  /\ received = 0
  /\ sent = <<>>
  /\ seen = 0
  /\ ret = [op |-> "none", key |-> "", raised |-> NoError, device |-> NoDevice]
  /\ device_calls = <<>>
  /\ batch_out = [done |-> FALSE, calls |-> <<>>, events_processed |-> 0, discarded |-> 0]
  /\ single_out = [n |-> 0, calls |-> <<>>]
  /\ handlers = Empty

Init == StartState /\ records = <<>>

Next ==
  \/ \E addr \in Addrs, wellFormed \in BOOLEAN : Hello(addr, wellFormed)
  \/ \E addr \in Addrs, sid \in SessionIds, payload \in DeviceTypes \cup {Malformed} :
        Connect(addr, sid, payload)
  \/ \E addr \in Addrs, sid \in SessionIds : Disconnect(addr, sid)
  \/ \E addr \in Addrs, sid \in SessionIds : SessionEnd(addr, sid)
  \/ RunTask

Spec == Init /\ [][Next]_vars

(***************************************************************************)
(* The registry used directly, as the WebSocket and WebRTC servers use it: *)
(* any caller may call acquire, release and get with any name, in any      *)
(* order.                                                                  *)
(***************************************************************************)
RegistryNames == DeviceTypes \cup {"STANDARD"}

Call ==
  /\ received < MaxCalls
  /\ received' = received + 1
  /\ sent' = <<>>
  /\ device_calls' = <<>>
  /\ seen' = 0
  /\ UNCHANGED <<engineVars, trialVars, handlers>>

Returned(op, name, r) ==
  [op |-> op, key |-> Lower(name), raised |-> r.raised, device |-> r.device]

Acquire(name, ctorOk) ==
  LET r == acquire(instances, client_counts, devs, name, ctorOk) IN
  /\ Call
  /\ SetReg(r)
  /\ ret' = Returned("acquire", name, r)

Release(name) ==
  LET r == release(instances, client_counts, devs, name) IN
  /\ Call
  /\ SetReg(r)
  /\ ret' = Returned("release", name, r)

Get(name) ==
  /\ Call
  /\ UNCHANGED regVars
  /\ ret' = [op |-> "get", key |-> Lower(name), raised |-> NoError,
              device |-> get(instances, name)]

NextRegistry ==
  \/ \E name \in RegistryNames, ctorOk \in BOOLEAN : Acquire(name, ctorOk)
  \/ \E name \in RegistryNames : Release(name)
  \/ \E name \in RegistryNames : Get(name)

SpecRegistry == Init /\ [][NextRegistry]_vars

(***************************************************************************)
(* Two clients sharing the "standard" device.  Every client says HELLO,    *)
(* sends CONNECT("standard") once, while no acquisition has completed yet  *)
(* (so the acquisitions of all who connect are pending together), and,     *)
(* once bound, gives the device up once, by DISCONNECT or SESSION_END.     *)
(* Each client sends from the address of its HELLO, and the device         *)
(* constructor succeeds.                                                   *)
(***************************************************************************)
Clients == 2
Bound == {s \in DOMAIN sessions : sessions[s].device # NoDevice}
PendingConnect(s) == \E i \in 1..Len(tasks) : tasks[i].kind = "connect" /\ tasks[i].sid = s
PendingReleases(key) ==
  Cardinality({i \in 1..Len(tasks) :
                 tasks[i].kind = "release" /\ Lower(tasks[i].device_type) = key})

ClientHello(addr) ==
  /\ Len(issued) < Clients
  /\ UNCHANGED <<received, trialVars, handlers>>
  /\ datagram_received(addr, handle_hello(addr, TRUE))

ClientConnect(s) ==
  /\ s \in DOMAIN sessions
  /\ sessions[s].device_type = ""
  /\ ~PendingConnect(s)
  /\ devs = <<>>
  /\ UNCHANGED <<received, trialVars, handlers>>
  /\ datagram_received(sessions[s].client_addr,
                        handle_connect(sessions[s].client_addr, s, "standard"))

ClientDisconnect(s) ==
  /\ s \in Bound
  /\ UNCHANGED <<received, trialVars, handlers>>
  /\ datagram_received(sessions[s].client_addr,
                        handle_disconnect(sessions[s].client_addr, s))

ClientSessionEnd(s) ==
  /\ s \in Bound
  /\ UNCHANGED <<received, trialVars, handlers>>
  /\ datagram_received(sessions[s].client_addr,
                        handle_session_end(sessions[s].client_addr, s))

NextTwoClients ==
  \/ \E addr \in Addrs : ClientHello(addr)
  \/ \E s \in DOMAIN sessions : ClientConnect(s)
  \/ \E s \in DOMAIN sessions : ClientDisconnect(s)
  \/ \E s \in DOMAIN sessions : ClientSessionEnd(s)
  \/ RunTaskWith(TRUE)

SpecTwoClients == Init /\ [][NextTwoClients]_vars

(***************************************************************************)
(* A BATCH of BUTTON records against the same records sent one by one.     *)
(* A run draws the records; a client at one address says HELLO and may     *)
(* CONNECT a device; then, with no task pending, it sends the records as   *)
(* one BATCH datagram and as BUTTON datagrams, one per record, in order.   *)
(***************************************************************************)
PadAddr == "A"
\* Two device ids, the codes of "a", "r3" and the mouse button "left", and
\* pressed bytes 0 and 2, each as its bytes on the wire.
ButtonRecords ==
  {<<d[1], d[2], c[1], c[2], p>> : d \in {<<0, 0>>, <<1, 2>>},
                                    c \in {<<1, 0>>, <<17, 0>>, <<1, 2>>},
                                    p \in {0, 2}}
RecordSeqs == UNION {[1..n -> ButtonRecords] : n \in 0..MaxRecords}

RECURSIVE Concat(_)
Concat(recs) == IF recs = <<>> THEN <<>> ELSE Head(recs) \o Concat(Tail(recs))
\* event_count, then the records.
BatchPayload(recs) == <<Len(recs)>> \o Concat(recs)

TrialIdle == ~batch_out.done /\ single_out.n = 0

PadHello ==
  /\ TrialIdle
  /\ issued = <<>>
  /\ UNCHANGED <<received, trialVars, handlers>>
  /\ datagram_received(PadAddr, handle_hello(PadAddr, TRUE))

PadConnect(device_type) ==
  /\ TrialIdle
  /\ FirstSessionId \in DOMAIN sessions
  /\ sessions[FirstSessionId].device_type = ""
  /\ tasks = <<>>
  /\ UNCHANGED <<received, trialVars, handlers>>
  /\ datagram_received(PadAddr, handle_connect(PadAddr, FirstSessionId, device_type))

PadRunTask == TrialIdle /\ RunTaskWith(TRUE)

SendBatch ==
  LET r == handle_batch(BatchPayload(records), FirstSessionId) IN
  /\ tasks = <<>>
  /\ ~batch_out.done
  /\ datagram_received(PadAddr, event_message(r.calls))
  /\ batch_out' = [done |-> TRUE, calls |-> device_calls',
                   events_processed |-> r.events_processed, discarded |-> r.discarded]
  /\ UNCHANGED <<received, records, single_out, handlers>>

SendButton ==
  /\ tasks = <<>>
  /\ single_out.n < Len(records)
  /\ datagram_received(PadAddr,
                        event_message(handle_button(records[single_out.n + 1], FirstSessionId)))
  /\ single_out' = [n |-> single_out.n + 1, calls |-> single_out.calls \o device_calls']
  /\ UNCHANGED <<received, records, batch_out, handlers>>

InitBatch == StartState /\ records \in RecordSeqs

NextBatch ==
  \/ PadHello
  \/ \E device_type \in {"standard", "Mouse"} : PadConnect(device_type)
  \/ PadRunTask
  \/ SendBatch
  \/ SendButton

SpecBatch == InitBatch /\ [][NextBatch]_vars

(***************************************************************************)
(* A BATCH of events of any of the five kinds against the same events sent *)
(* one by one, each as a datagram of its own message type.  The client is  *)
(* the one above: HELLO, perhaps a CONNECT, then, with no task pending,    *)
(* the events as one BATCH datagram and as single datagrams, in order.     *)
(***************************************************************************)
Event(type, bytes) == [type |-> type, bytes |-> bytes]
\* BUTTON a pressed / r3 released; AXIS lx 32767 / lt -32768; MOUSE_MOVE
\* (10, 5) / (-5, 0); MOUSE_BUTTON left pressed / right released;
\* MOUSE_SCROLL (0, 3) / (-2, 0).
EventRecords ==
  {Event("BUTTON", b) : b \in {<<0, 0, 1, 0, 1>>, <<1, 2, 17, 0, 0>>}}
  \cup {Event("AXIS", b) : b \in {<<0, 0, 1, 1, 255, 127>>, <<0, 0, 5, 1, 0, 128>>}}
  \cup {Event("MOUSE_MOVE", b) : b \in {<<10, 0, 5, 0>>, <<251, 255, 0, 0>>}}
  \cup {Event("MOUSE_BUTTON", b) : b \in {<<1, 2, 1>>, <<2, 2, 0>>}}
  \cup {Event("MOUSE_SCROLL", b) : b \in {<<0, 0, 3, 0>>, <<254, 255, 0, 0>>}}
EventSeqs == UNION {[1..n -> EventRecords] : n \in 0..MaxRecords}

RECURSIVE ConcatBytes(_)
ConcatBytes(events) ==
  IF events = <<>> THEN <<>> ELSE Head(events).bytes \o ConcatBytes(Tail(events))

\* _dispatch_message for the five event message types.
dispatch_event(type, payload, session_id) ==
  CASE type = "BUTTON" -> handle_button(payload, session_id)
    [] type = "AXIS" -> handle_axis(payload, session_id)
    [] type = "MOUSE_MOVE" -> handle_mouse_move(payload, session_id)
    [] type = "MOUSE_BUTTON" -> handle_mouse_button(payload, session_id)
    [] type = "MOUSE_SCROLL" -> handle_mouse_scroll(payload, session_id)

\* The rule of the batch decoder that stands for a message type.
RuleOf(type) ==
  CASE type = "BUTTON" -> "button"
    [] type = "AXIS" -> "axis"
    [] type = "MOUSE_MOVE" -> "mouse_move"
    [] type = "MOUSE_BUTTON" -> "mouse_button"
    [] type = "MOUSE_SCROLL" -> "mouse_scroll"

SendBatchOfEvents ==
  LET r == handle_batch(<<Len(records)>> \o ConcatBytes(records), FirstSessionId) IN
  /\ tasks = <<>>
  /\ ~batch_out.done
  /\ datagram_received(PadAddr, event_message(r.calls))
  /\ batch_out' = [done |-> TRUE, calls |-> device_calls', events |-> r.events,
                   events_processed |-> r.events_processed, discarded |-> r.discarded]
  /\ UNCHANGED <<received, records, single_out, handlers>>

SendEvent ==
  /\ tasks = <<>>
  /\ single_out.n < Len(records)
  /\ LET e == records[single_out.n + 1] IN
       datagram_received(PadAddr,
                         event_message(dispatch_event(e.type, e.bytes, FirstSessionId)))
  /\ single_out' = [n |-> single_out.n + 1, calls |-> single_out.calls \o device_calls']
  /\ UNCHANGED <<received, records, batch_out, handlers>>

InitEvents == StartState /\ records \in EventSeqs

NextEvents ==
  \/ PadHello
  \/ \E device_type \in {"standard", "Mouse"} : PadConnect(device_type)
  \/ PadRunTask
  \/ SendBatchOfEvents
  \/ SendEvent

SpecEvents == InitEvents /\ [][NextEvents]_vars

(***************************************************************************)
(* A BATCH payload of any bytes.  A run draws the payload; the client is   *)
(* the one above and sends the payload in one BATCH datagram.              *)
(***************************************************************************)
\* Bytes that make button, axis and mouse button codes, small deltas, and
\* (with 252 as the high byte) values below -1000.
PayloadBytes == {0, 1, 2, 252}
EventCounts == {0, 1, 2, 255}
Payloads ==
  {<<n>> \o body : n \in EventCounts,
                   body \in UNION {[1..k -> PayloadBytes] : k \in 0..MaxBody}}

SendPayload ==
  LET r == handle_batch(records[1].bytes, FirstSessionId) IN
  /\ tasks = <<>>
  /\ ~batch_out.done
  /\ datagram_received(PadAddr, event_message(r.calls))
  /\ batch_out' = [done |-> TRUE, calls |-> device_calls', events |-> r.events,
                   events_processed |-> r.events_processed, discarded |-> r.discarded]
  /\ UNCHANGED <<received, records, single_out, handlers>>

InitDecoder == StartState /\ records \in {<<Event("BATCH", p)>> : p \in Payloads}

NextDecoder ==
  \/ PadHello
  \/ \E device_type \in {"standard", "Mouse"} : PadConnect(device_type)
  \/ PadRunTask
  \/ SendPayload

SpecDecoder == InitDecoder /\ [][NextDecoder]_vars

(***************************************************************************)
(* Datagrams of every kind: the steps of the engine above, and datagrams   *)
(* that are too short, of another version, of an unknown type, PING, and   *)
(* input events.                                                           *)
(***************************************************************************)
TooShort(addr) == Receive /\ packet_too_small(addr)
BadVersion(addr) == Receive /\ unsupported_version(addr)
Ping(addr, session_id) == Receive /\ datagram_received(addr, handle_ping(addr, session_id, 0))
UnknownMessage(addr, session_id) ==
  Receive /\ datagram_received(addr, unknown_message(addr, session_id))

\* One well-formed input event of each type.
InputEvents ==
  {Event("BUTTON", <<0, 0, 1, 0, 1>>), Event("AXIS", <<0, 0, 1, 1, 255, 127>>),
   Event("MOUSE_MOVE", <<10, 0, 5, 0>>), Event("MOUSE_BUTTON", <<1, 2, 1>>),
   Event("MOUSE_SCROLL", <<0, 0, 3, 0>>)}

Input(addr, session_id, event) ==
  /\ Receive
  /\ datagram_received(addr, event_message(dispatch_event(event.type, event.bytes, session_id)))

NextDatagrams ==
  \/ Next
  \/ \E addr \in Addrs : TooShort(addr)
  \/ \E addr \in Addrs : BadVersion(addr)
  \/ \E addr \in Addrs, sid \in SessionIds : Ping(addr, sid)
  \/ \E addr \in Addrs, sid \in SessionIds : UnknownMessage(addr, sid)
  \/ \E addr \in Addrs, sid \in SessionIds, event \in InputEvents : Input(addr, sid, event)

SpecDatagrams == Init /\ [][NextDatagrams]_vars

(***************************************************************************)
(* Input events with payloads that are well formed, too short, or carry a  *)
(* control code that is unknown or of another kind.  An input event leaves *)
(* the engine's tables as they are; these datagrams are not counted.       *)
(***************************************************************************)
NotCounted == UNCHANGED <<received, trialVars, handlers>>

\* device_id, control_code, pressed: BTN_A, axis LX, mouse left, code 0, and
\* a payload of four bytes.
ButtonPayloads ==
  {<<0, 0, 1, 0, 1>>, <<0, 0, 1, 1, 1>>, <<0, 0, 1, 2, 1>>, <<0, 0, 0, 0, 1>>, <<0, 0, 1, 0>>}
\* device_id, control_code, value: axis LX, BTN_A, code 0x0300, five bytes.
AxisPayloads ==
  {<<0, 0, 1, 1, 255, 127>>, <<0, 0, 1, 0, 255, 127>>, <<0, 0, 0, 3, 255, 127>>,
   <<0, 0, 1, 1, 255>>}
\* control_code, pressed: mouse left, BTN_A, axis LX, code 0x0204, two bytes.
MouseButtonPayloads == {<<1, 2, 1>>, <<1, 0, 1>>, <<1, 1, 1>>, <<4, 2, 1>>, <<1, 2>>}
MouseMovePayloads == {<<10, 0, 251, 255>>, <<10, 0, 5>>}
MouseScrollPayloads == {<<0, 0, 3, 0>>, <<0, 0, 3>>}
BatchPayloads == {<<>>, <<2, 0, 0, 1, 0, 1, 1, 2, 1>>}

Button(addr, session_id, payload) ==
  NotCounted /\ datagram_received(addr, event_message(handle_button(payload, session_id)))
Axis(addr, session_id, payload) ==
  NotCounted /\ datagram_received(addr, event_message(handle_axis(payload, session_id)))
MouseMove(addr, session_id, payload) ==
  NotCounted /\ datagram_received(addr, event_message(handle_mouse_move(payload, session_id)))
MouseButton(addr, session_id, payload) ==
  NotCounted /\ datagram_received(addr, event_message(handle_mouse_button(payload, session_id)))
MouseScroll(addr, session_id, payload) ==
  NotCounted /\ datagram_received(addr, event_message(handle_mouse_scroll(payload, session_id)))
Batch(addr, session_id, payload) ==
  NotCounted /\ datagram_received(addr, event_message(handle_batch(payload, session_id).calls))

NextInput ==
  \/ Next
  \/ \E addr \in Addrs, sid \in SessionIds, payload \in ButtonPayloads :
        Button(addr, sid, payload)
  \/ \E addr \in Addrs, sid \in SessionIds, payload \in AxisPayloads :
        Axis(addr, sid, payload)
  \/ \E addr \in Addrs, sid \in SessionIds, payload \in MouseMovePayloads :
        MouseMove(addr, sid, payload)
  \/ \E addr \in Addrs, sid \in SessionIds, payload \in MouseButtonPayloads :
        MouseButton(addr, sid, payload)
  \/ \E addr \in Addrs, sid \in SessionIds, payload \in MouseScrollPayloads :
        MouseScroll(addr, sid, payload)
  \/ \E addr \in Addrs, sid \in SessionIds, payload \in BatchPayloads :
        Batch(addr, sid, payload)

SpecInput == Init /\ [][NextInput]_vars

(***************************************************************************)
(* CONNECT with every kind of device type string: the types above and the  *)
(* longest string the one-byte type_len allows.  The event loop runs every *)
(* task it was given.                                                      *)
(***************************************************************************)
\* A device type of 255 bytes, the most type_len (one byte) can announce.
LongType ==
  LET x15 == "xxxxxxxxxxxxxxx"
      x60 == x15 \o x15 \o x15 \o x15
  IN x60 \o x60 \o x60 \o x60 \o x15

NextConnect ==
  \/ Next
  \/ \E addr \in Addrs, sid \in SessionIds : Connect(addr, sid, LongType)

SpecConnect == Init /\ [][NextConnect]_vars /\ WF_vars(RunTask)

(***************************************************************************)
(* Input events with sequence numbers.  A run draws the events and the seq *)
(* each datagram carries in its header (equal, decreasing and skipped      *)
(* values among them); the client above sends them one datagram each.      *)
(***************************************************************************)
SeqValues == {0, 1, 2}
SeqRecords ==
  {[type |-> e.type, bytes |-> e.bytes, seq |-> q] :
     e \in {Event("BUTTON", <<0, 0, 1, 0, 1>>), Event("BUTTON", <<0, 0, 1, 0, 0>>),
            Event("AXIS", <<0, 0, 1, 1, 255, 127>>)},
     q \in SeqValues}
SeqRecordSeqs == UNION {[1..n -> SeqRecords] : n \in 0..MaxRecords}

\* A variant that takes a datagram whose seq is below the number of datagrams
\* handled so far as a duplicate and drops it.
dispatch_message_in_seq_order(msg_type, payload, addr, session_id, seq) ==
  IF seq < received THEN event_message(<<>>)
  ELSE event_message(dispatch_event(msg_type, payload, session_id))
\* _dispatch_message for the input events: seq is not handed on.
dispatch_message(msg_type, payload, addr, session_id, seq) ==
  event_message(dispatch_event(msg_type, payload, session_id))

SendWithSeq ==
  /\ tasks = <<>>
  /\ single_out.n < Len(records)
  /\ LET e == records[single_out.n + 1] IN
       datagram_received(PadAddr,
                         dispatch_message(e.type, e.bytes, PadAddr, FirstSessionId, e.seq))
  /\ single_out' = [n |-> single_out.n + 1, calls |-> single_out.calls \o device_calls']
  /\ received' = received + 1
  /\ UNCHANGED <<records, batch_out, handlers>>

InitSeq == StartState /\ records \in SeqRecordSeqs

NextSeq ==
  \/ PadHello
  \/ \E device_type \in {"standard", "Mouse"} : PadConnect(device_type)
  \/ PadRunTask
  \/ SendWithSeq

SpecSeq == InitSeq /\ [][NextSeq]_vars

(***************************************************************************)
(* AXIS with every 16-bit value.  A run draws the two value bytes of one   *)
(* AXIS message for the left stick's x axis; the client above sends it.    *)
(***************************************************************************)
Bytes == 0..255
AxisMessages == {<<Event("AXIS", <<0, 0, 1, 1, lo, hi>>)>> : lo \in Bytes, hi \in Bytes}

InitAxis == StartState /\ records \in AxisMessages

NextAxis ==
  \/ PadHello
  \/ PadConnect("standard")
  \/ PadRunTask
  \/ SendEvent

SpecAxis == InitAxis /\ [][NextAxis]_vars

(***************************************************************************)
(* HELLO payloads: caps_len (u16), caps bytes, name_len (u8), client name. *)
(***************************************************************************)
\* bytes.decode('utf-8') of a name; the names of HelloPayloads are ASCII or
\* hold the byte 255, which no UTF-8 text contains.
decodes(name) == \A k \in 1..Len(name) : name[k] < 128

\* A variant without the client name length test of lines 259-260.
hello_parses_any_name_len(payload) ==
  IF Len(payload) < 4 THEN FALSE
  ELSE LET caps_len == u16(At(payload, 0), At(payload, 1)) IN
       IF Len(payload) < 2 + caps_len + 1 THEN FALSE
       ELSE LET offset == 2 + caps_len
                name_len == At(payload, offset)
            IN decodes(Slice(payload, offset + 1, offset + 1 + name_len))
\* Lines 247-262 of _handle_hello: FALSE where the code raises.
hello_parses(payload) ==
  IF Len(payload) < 4 THEN FALSE
  ELSE LET caps_len == u16(At(payload, 0), At(payload, 1)) IN
       IF Len(payload) < 2 + caps_len + 1 THEN FALSE
       ELSE LET offset == 2 + caps_len
                name_len == At(payload, offset)
            IN IF Len(payload) < offset + 1 + name_len THEN FALSE
               ELSE decodes(Slice(payload, offset + 1, offset + 1 + name_len))

\* caps 0x01 and name "TestClient" shortened to "T" (the test client's HELLO),
\* caps 0x00, caps 0xff, caps 0x10 (FEEDBACK only), two capability bytes with
\* an empty name, no capability byte with name "PP", and three payloads the
\* code rejects: 3 bytes, a name shorter than name_len, a name that is not
\* UTF-8.
HelloPayloads ==
  {<<1, 0, 1, 1, 84>>, <<1, 0, 0, 1, 80>>, <<1, 0, 255, 1, 80>>, <<1, 0, 16, 2, 80, 80>>,
   <<2, 0, 8, 1, 0>>, <<0, 0, 2, 80, 80>>,
   <<0, 0, 0>>, <<1, 0, 1, 5, 80>>, <<1, 0, 1, 1, 255>>}

HelloWith(addr, payload) ==
  /\ Receive
  /\ datagram_received(addr, handle_hello(addr, hello_parses(payload)))

NextWelcome ==
  \/ Next
  \/ \E addr \in Addrs, payload \in HelloPayloads : HelloWith(addr, payload)

SpecWelcome == Init /\ [][NextWelcome]_vars

(***************************************************************************)
(* Datagrams as bytes: the 12-byte header, the 8-byte extension when the   *)
(* timestamp flag is set, and the payload.                                 *)
(***************************************************************************)
PROTOCOL_VERSION == 1
FLAG_HAS_TIMESTAMP == 2
MSG_HELLO == 1
MSG_PING == 3
MSG_SESSION_END == 5
MSG_CONNECT == 16
MSG_DISCONNECT == 17
MSG_BUTTON == 32
MSG_AXIS == 33
MSG_MOUSE_MOVE == 34
MSG_MOUSE_BUTTON == 35
MSG_MOUSE_SCROLL == 38
MSG_BATCH == 64
\* A message type no branch of _dispatch_message names.
MSG_OTHER == 127

RECURSIVE BitAnd(_, _)
BitAnd(a, b) ==
  IF a = 0 \/ b = 0 THEN 0
  ELSE (IF a % 2 = 1 /\ b % 2 = 1 THEN 1 ELSE 0) + 2 * BitAnd(a \div 2, b \div 2)

\* struct.pack('<H', n), struct.pack('<I', n) and struct.unpack('<I', ...).
le16(n) == <<n % 256, n \div 256>>
le32(n) == <<n % 256, (n \div 256) % 256, (n \div 65536) % 256, n \div 16777216>>
u32(b0, b1, b2, b3) == b0 + 256 * b1 + 65536 * b2 + 16777216 * b3

\* str.encode('utf-8') of the device type names, and bytes.decode('utf-8')
\* of the ASCII byte strings of the model: a name of DeviceTypes when the
\* bytes spell one, another name otherwise.
Utf8(name) ==
  CASE name = "standard" -> <<115, 116, 97, 110, 100, 97, 114, 100>>
    [] name = "Mouse" -> <<77, 111, 117, 115, 101>>
    [] name = "keyboard" -> <<107, 101, 121, 98, 111, 97, 114, 100>>
OtherName == "<other>"
decode(bytes) ==
  IF \E name \in DeviceTypes : Utf8(name) = bytes
  THEN CHOOSE name \in DeviceTypes : Utf8(name) = bytes
  ELSE OtherName

\* Lines 302-309 of _handle_connect: the device type of the payload,
\* Malformed where the code raises.
connect_parses(payload) ==
  IF Len(payload) < 2 THEN Malformed
  ELSE LET type_len == At(payload, 0) IN
       IF Len(payload) < 1 + type_len + 1 THEN Malformed
       ELSE decode(Slice(payload, 1, 1 + type_len))

\* _dispatch_message, by the message type byte.
dispatch_by_code(msg_type, payload, addr, session_id, flags) ==
  CASE msg_type = MSG_HELLO -> handle_hello(addr, hello_parses(payload))
    [] msg_type = MSG_PING -> handle_ping(addr, session_id, flags)
    [] msg_type = MSG_CONNECT -> handle_connect(addr, session_id, connect_parses(payload))
    [] msg_type = MSG_DISCONNECT -> handle_disconnect(addr, session_id)
    [] msg_type = MSG_BUTTON -> event_message(handle_button(payload, session_id))
    [] msg_type = MSG_AXIS -> event_message(handle_axis(payload, session_id))
    [] msg_type = MSG_MOUSE_MOVE -> event_message(handle_mouse_move(payload, session_id))
    [] msg_type = MSG_MOUSE_BUTTON -> event_message(handle_mouse_button(payload, session_id))
    [] msg_type = MSG_MOUSE_SCROLL -> event_message(handle_mouse_scroll(payload, session_id))
    [] msg_type = MSG_BATCH -> event_message(handle_batch(payload, session_id).calls)
    [] msg_type = MSG_SESSION_END -> handle_session_end(addr, session_id)
    [] OTHER -> unknown_message(addr, session_id)

\* A variant that takes the payload from offset 12 whatever the flags.
payload_offset_fixed(flags) == 12
\* Lines 196-198: where the payload begins.
payload_offset(flags) == IF BitAnd(flags, FLAG_HAS_TIMESTAMP) # 0 THEN 20 ELSE 12

\* datagram_received on the bytes of a datagram.
datagram_bytes(data, addr) ==
  IF Len(data) < 12 THEN packet_too_small(addr)
  ELSE IF At(data, 0) # PROTOCOL_VERSION THEN unsupported_version(addr)
  ELSE LET msg_type == At(data, 1)
           flags == u16(At(data, 2), At(data, 3))
           session_id == u32(At(data, 4), At(data, 5), At(data, 6), At(data, 7))
           payload == Slice(data, payload_offset(flags), Len(data))
       IN datagram_received(addr, dispatch_by_code(msg_type, payload, addr, session_id, flags))

\* The number of datagrams a run of the byte-level engine receives.
MaxWire == 3

\* The messages a client sends: type and payload.
Message(msg_type, payload) == [msg_type |-> msg_type, payload |-> payload]
WireMessages ==
  {Message(MSG_HELLO, <<1, 0, 1, 1, 84>>), Message(MSG_PING, <<>>),
   Message(MSG_CONNECT, <<8>> \o Utf8("standard") \o <<0>>),
   Message(MSG_CONNECT, <<5>> \o Utf8("Mouse") \o <<1, 77>>),
   Message(MSG_DISCONNECT, <<>>), Message(MSG_SESSION_END, <<>>),
   Message(MSG_BUTTON, <<0, 0, 1, 0, 1>>), Message(MSG_AXIS, <<0, 0, 1, 1, 255, 127>>),
   Message(MSG_MOUSE_MOVE, <<10, 0, 5, 0>>), Message(MSG_MOUSE_BUTTON, <<1, 2, 1>>),
   Message(MSG_MOUSE_SCROLL, <<0, 0, 3, 0>>), Message(MSG_BATCH, <<1, 0, 0, 1, 0, 1>>),
   Message(MSG_OTHER, <<>>)}
WireFlags == {0, FLAG_HAS_TIMESTAMP}
\* The eight bytes of a timestamp.
Extension == <<1, 2, 1, 2, 1, 0, 0, 0>>

\* send_raw, with the flags and, when the timestamp flag is set, the
\* extension between header and payload.
Encode(m, flags, session_id, seq) ==
  <<PROTOCOL_VERSION, m.msg_type>> \o le16(flags) \o le32(session_id) \o le32(seq)
    \o (IF BitAnd(flags, FLAG_HAS_TIMESTAMP) # 0 THEN Extension ELSE <<>>)
    \o m.payload

Wire(addr, data) ==
  /\ received < MaxWire
  /\ received' = received + 1
  /\ UNCHANGED <<trialVars, handlers>>
  /\ datagram_bytes(data, addr)

\* The byte-level engine has one client address.
NextWire ==
  \/ \E m \in WireMessages, flags \in WireFlags, sid \in SessionIds :
        Wire(PadAddr, Encode(m, flags, sid, received))
  \/ Wire(PadAddr, <<PROTOCOL_VERSION, MSG_PING, 0, 0>>)
  \/ Wire(PadAddr, <<PROTOCOL_VERSION + 1>> \o Tail(Encode(Message(MSG_PING, <<>>), 0, 0, 0)))
  \/ RunTask

SpecWire == Init /\ [][NextWire]_vars

(***************************************************************************)
(* The WebSocket server.  Each connection runs ControllerServer._handle,   *)
(* which keeps the set connected_devices and handles one JSON message at a *)
(* time; _process_message and the clean-up at the end of _handle contain   *)
(* no point at which another coroutine runs (the registry lock is always   *)
(* free when it is asked for), so each is one step.  The registry is the   *)
(* server's own.  acquired and released count, per registry key, the       *)
(* acquire calls that succeeded and the release calls made by a handler.   *)
(***************************************************************************)
\* The number of JSON messages, and of triggers of the WebRTC cleanup, in a run.
MaxWeb == 3
\* The "device" values of the messages; Missing: the field is absent.
Missing == ""
WebNames == {"standard", "STANDARD", "Mouse"}
NoCalls == [key \in constructors |-> 0]

WebStep(calls) ==
  /\ sent' = <<>>
  /\ device_calls' = calls
  /\ seen' = 0
  /\ UNCHANGED <<engineVars, trialVars, ret>>

WebMessage ==
  /\ received < MaxWeb
  /\ received' = received + 1

\* websockets.serve starts _handle for a new connection.
WsOpen ==
  /\ Cardinality(DOMAIN handlers) < Clients
  /\ handlers' = Put(handlers, Cardinality(DOMAIN handlers) + 1,
                     [connected_devices |-> {}, done |-> FALSE,
                      acquired |-> NoCalls, released |-> NoCalls])
  /\ WebStep(<<>>)
  /\ UNCHANGED <<received, regVars>>

\* event "connect"; a message without "device" names "standard".
ws_connect(c, device_type, ctorOk) ==
  LET h == handlers[c]
      r == acquire(instances, client_counts, devs, device_type, ctorOk)
  IN IF device_type \in h.connected_devices \/ r.raised # NoError
     THEN UNCHANGED <<handlers, regVars>>
     ELSE /\ SetReg(r)
          /\ handlers' = [handlers EXCEPT
               ![c].connected_devices = @ \cup {device_type},
               ![c].acquired[Lower(device_type)] = @ + 1]

\* event "disconnect".
ws_disconnect(c, device_type) ==
  LET h == handlers[c] IN
  IF device_type = Missing \/ device_type \notin h.connected_devices
  THEN UNCHANGED <<handlers, regVars>>
  ELSE /\ SetReg(release(instances, client_counts, devs, device_type))
       /\ handlers' = [handlers EXCEPT
            ![c].connected_devices = @ \ {device_type},
            ![c].released[Lower(device_type)] = @ + 1]

\* A variant of the events "button" and "axis" that does not add the device
\* it acquires to connected_devices.
ws_input_forgets(c, target_device, complete, ctorOk) ==
  LET h == handlers[c]
      r == acquire(instances, client_counts, devs, target_device, ctorOk)
      call(device) == IF complete THEN <<DeviceCall(device, "set_button", "a", TRUE, 0, 0)>>
                      ELSE <<>>
  IN IF target_device = Missing
     THEN UNCHANGED <<handlers, regVars>> /\ device_calls' = <<>>
     ELSE IF target_device \in h.connected_devices
     THEN UNCHANGED <<handlers, regVars>> /\ device_calls' = call(get(instances, target_device))
     ELSE IF r.raised # NoError
     THEN UNCHANGED <<handlers, regVars>> /\ device_calls' = <<>>
     ELSE /\ SetReg(r)
          /\ handlers' = [handlers EXCEPT ![c].acquired[Lower(target_device)] = @ + 1]
          /\ device_calls' = call(r.device)
\* events "button" and "axis": the device is acquired when the connection
\* does not hold it; complete: the message has its name and its value.
ws_input(c, target_device, complete, ctorOk) ==
  LET h == handlers[c]
      r == acquire(instances, client_counts, devs, target_device, ctorOk)
      call(device) == IF complete THEN <<DeviceCall(device, "set_button", "a", TRUE, 0, 0)>>
                      ELSE <<>>
  IN IF target_device = Missing
     THEN UNCHANGED <<handlers, regVars>> /\ device_calls' = <<>>
     ELSE IF target_device \in h.connected_devices
     THEN UNCHANGED <<handlers, regVars>> /\ device_calls' = call(get(instances, target_device))
     ELSE IF r.raised # NoError
     THEN UNCHANGED <<handlers, regVars>> /\ device_calls' = <<>>
     ELSE /\ SetReg(r)
          /\ handlers' = [handlers EXCEPT
               ![c].connected_devices = @ \cup {target_device},
               ![c].acquired[Lower(target_device)] = @ + 1]
          /\ device_calls' = call(r.device)

\* The finally clause of _handle: one release for every name in
\* connected_devices.
RECURSIVE release_all(_, _)
release_all(names, reg) ==
  IF names = {} THEN reg
  ELSE LET name == CHOOSE n \in names : TRUE IN
       release_all(names \ {name}, release(reg.instances, reg.client_counts, reg.devs, name))

ws_finish(c) ==
  LET h == handlers[c] IN
  /\ SetReg(release_all(h.connected_devices, Reg(instances, client_counts, devs, NoError, NoDevice)))
  /\ handlers' = [handlers EXCEPT
       ![c].done = TRUE,
       ![c].released = [key \in constructors |->
                          @[key] + Cardinality({n \in h.connected_devices : Lower(n) = key})]]

Open(c) == c \in DOMAIN handlers /\ ~handlers[c].done

WsConnect(c, device_type, ctorOk) ==
  /\ Open(c) /\ WebMessage
  /\ ws_connect(c, device_type, ctorOk)
  /\ WebStep(<<>>)
WsDisconnect(c, device_type) ==
  /\ Open(c) /\ WebMessage
  /\ ws_disconnect(c, device_type)
  /\ WebStep(<<>>)
WsInput(c, target_device, complete, ctorOk) ==
  /\ Open(c) /\ WebMessage
  /\ ws_input(c, target_device, complete, ctorOk)
  /\ sent' = <<>> /\ seen' = 0
  /\ UNCHANGED <<engineVars, trialVars, ret>>
\* events "ping" and "rename", and a message _process_message rejects.
WsPing(c) ==
  /\ Open(c) /\ WebMessage
  /\ WebStep(<<>>)
  /\ UNCHANGED <<handlers, regVars>>
\* The connection closes, fails or is cancelled: _handle leaves its loop.
WsFinish(c) ==
  /\ Open(c)
  /\ ws_finish(c)
  /\ WebStep(<<>>)
  /\ UNCHANGED received

NextWebSocket ==
  \/ WsOpen
  \/ \E c \in 1..Clients : WsPing(c)
  \/ \E c \in 1..Clients, name \in WebNames, ctorOk \in BOOLEAN : WsConnect(c, name, ctorOk)
  \/ \E c \in 1..Clients, name \in WebNames \cup {Missing} : WsDisconnect(c, name)
  \/ \E c \in 1..Clients, name \in WebNames \cup {Missing}, complete \in BOOLEAN,
        ctorOk \in BOOLEAN : WsInput(c, name, complete, ctorOk)
  \/ \E c \in 1..Clients : WsFinish(c)

SpecWebSocket == Init /\ [][NextWebSocket]_vars

(***************************************************************************)
(* The WebRTC server.  _handle_signaling keeps, per client, the name       *)
(* client_device and the flag closed; the messages of the data channel go  *)
(* through _process_message, which gets client_device and returns its new  *)
(* value with the replies of connect and disconnect only.  cleanup is      *)
(* started by a connection state change, by the close of the channel, by   *)
(* "bye" and by the end of the signaling loop.  acquired and released      *)
(* count as for the WebSocket server.                                      *)
(***************************************************************************)
\* No device: client_device is None.
NoClientDevice == ""

\* websockets.serve starts _handle_signaling for a new client.
RtcOpen ==
  /\ Cardinality(DOMAIN handlers) < Clients
  /\ handlers' = Put(handlers, Cardinality(DOMAIN handlers) + 1,
                     [client_device |-> NoClientDevice, closed |-> FALSE,
                      acquired |-> NoCalls, released |-> NoCalls])
  /\ WebStep(<<>>)
  /\ UNCHANGED <<received, regVars>>

\* event "connect"; a message without "device" names "standard".
rtc_connect(c, device_type, ctorOk) ==
  LET h == handlers[c]
      r == acquire(instances, client_counts, devs, device_type, ctorOk)
  IN IF h.client_device # NoClientDevice \/ r.raised # NoError
     THEN UNCHANGED <<handlers, regVars>>
     ELSE /\ SetReg(r)
          /\ handlers' = [handlers EXCEPT
               ![c].client_device = device_type,
               ![c].acquired[Lower(device_type)] = @ + 1]

\* event "disconnect".
rtc_disconnect(c) ==
  LET h == handlers[c] IN
  IF h.client_device = NoClientDevice
  THEN UNCHANGED <<handlers, regVars>>
  ELSE /\ SetReg(release(instances, client_counts, devs, h.client_device))
       /\ handlers' = [handlers EXCEPT
            ![c].client_device = NoClientDevice,
            ![c].released[Lower(h.client_device)] = @ + 1]

\* events "button" and "axis"; given: the "device" field, Missing when the
\* message has none.  The device is acquired when the registry has no
\* instance of it; client_device is not returned, so it stays as it was.
rtc_input(c, given, complete, ctorOk) ==
  LET h == handlers[c]
      target_device == IF given = Missing THEN h.client_device ELSE given
      device == get(instances, target_device)
      r == acquire(instances, client_counts, devs, target_device, ctorOk)
      call(d) == IF complete THEN <<DeviceCall(d, "set_button", "a", TRUE, 0, 0)>>
                 ELSE <<>>
  IN IF target_device = NoClientDevice
     THEN UNCHANGED <<handlers, regVars>> /\ device_calls' = <<>>
     ELSE IF device # NoDevice
     THEN UNCHANGED <<handlers, regVars>> /\ device_calls' = call(device)
     ELSE IF r.raised # NoError
     THEN UNCHANGED <<handlers, regVars>> /\ device_calls' = <<>>
     ELSE /\ SetReg(r)
          /\ handlers' = [handlers EXCEPT ![c].acquired[Lower(target_device)] = @ + 1]
          /\ device_calls' = call(r.device)

\* cleanup().
rtc_cleanup(c) ==
  LET h == handlers[c] IN
  IF h.closed
  THEN UNCHANGED <<handlers, regVars>>
  ELSE IF h.client_device = NoClientDevice
  THEN /\ handlers' = [handlers EXCEPT ![c].closed = TRUE]
       /\ UNCHANGED regVars
  ELSE /\ SetReg(release(instances, client_counts, devs, h.client_device))
       /\ handlers' = [handlers EXCEPT
            ![c].closed = TRUE,
            ![c].released[Lower(h.client_device)] = @ + 1]

\* The data channel of the client delivers messages until cleanup closes the
\* peer connection.
ChannelOpen(c) == c \in DOMAIN handlers /\ ~handlers[c].closed

RtcConnect(c, device_type, ctorOk) ==
  /\ ChannelOpen(c) /\ WebMessage
  /\ rtc_connect(c, device_type, ctorOk)
  /\ WebStep(<<>>)
RtcDisconnect(c) ==
  /\ ChannelOpen(c) /\ WebMessage
  /\ rtc_disconnect(c)
  /\ WebStep(<<>>)
RtcInput(c, given, complete, ctorOk) ==
  /\ ChannelOpen(c) /\ WebMessage
  /\ rtc_input(c, given, complete, ctorOk)
  /\ sent' = <<>> /\ seen' = 0
  /\ UNCHANGED <<engineVars, trialVars, ret>>
\* event "ping", and a message _process_message rejects.
RtcPing(c) ==
  /\ ChannelOpen(c) /\ WebMessage
  /\ WebStep(<<>>)
  /\ UNCHANGED <<handlers, regVars>>
\* One of the triggers of cleanup fires; each can fire after another has.
RtcCleanup(c) ==
  /\ c \in DOMAIN handlers /\ WebMessage
  /\ rtc_cleanup(c)
  /\ WebStep(<<>>)

NextWebRTC ==
  \/ RtcOpen
  \/ \E c \in 1..Clients : RtcPing(c)
  \/ \E c \in 1..Clients : RtcCleanup(c)
  \/ \E c \in 1..Clients, name \in WebNames, ctorOk \in BOOLEAN : RtcConnect(c, name, ctorOk)
  \/ \E c \in 1..Clients : RtcDisconnect(c)
  \/ \E c \in 1..Clients, given \in WebNames \cup {Missing}, complete \in BOOLEAN,
        ctorOk \in BOOLEAN : RtcInput(c, given, complete, ctorOk)

SpecWebRTC == Init /\ [][NextWebRTC]_vars

(***************************************************************************)
(* Claims.                                                                 *)
(***************************************************************************)
\* The devices of a key that were constructed and not closed.
LiveDevices(dv, key) == {i \in 1..Len(dv) : dv[i].key = key /\ dv[i].closes = 0}
\* The devices of a key constructed so far, and the close() calls made on them.
Constructed(dv, key) == Cardinality({i \in 1..Len(dv) : dv[i].key = key})
RECURSIVE CloseCalls(_, _, _)
CloseCalls(dv, key, n) ==
  IF n = 0 THEN 0
  ELSE CloseCalls(dv, key, n - 1) + (IF dv[n].key = key THEN dv[n].closes ELSE 0)

C1_Inv ==
  \A key \in constructors :
    /\ Refcount(key) >= 0
    /\ Cardinality(LiveDevices(devs, key)) <= 1
    /\ LiveDevices(devs, key) =
         (IF key \in DOMAIN instances THEN {instances[key]} ELSE {})

C1_Step ==
  /\ \A key \in constructors :
       LET made == Constructed(devs', key) - Constructed(devs, key)
           closed == CloseCalls(devs', key, Len(devs')) - CloseCalls(devs, key, Len(devs))
       IN /\ made = (IF Refcount(key) = 0 /\ Refcount(key)' = 1 THEN 1 ELSE 0)
          /\ closed = (IF Refcount(key) = 1 /\ Refcount(key)' = 0 THEN 1 ELSE 0)
  /\ ret'.raised \in {NoError, UnknownType, CtorFailed}
  /\ ret'.raised = UnknownType => ret'.op = "acquire" /\ ret'.key \notin constructors
  /\ ret'.raised = CtorFailed => ret'.op = "acquire" /\ ret'.key \notin DOMAIN instances

\* C1: under any order of acquire and release calls by any callers, for every
\* device type the refcount is never negative, at most one device of the type
\* is live (and it is the one the registry holds), a device is constructed in
\* exactly the steps that take the refcount from 0 to 1, close() is called,
\* once, in exactly the steps that take it from 1 to 0, and a call raises only
\* for an unknown type or a failing constructor.
C1_RefcountLifecycle == [](C1_Inv) /\ [][C1_Step]_vars

\* A second device of type "standard" is live with two clients after the first
\* one was closed.
C1_Witness ==
  /\ Refcount("standard") = 2
  /\ \E i \in 1..Len(devs) : devs[i].key = "standard" /\ devs[i].closes = 1
  /\ ret.op = "acquire"

C2_Inv ==
  /\ Len(devs) <= 1
  /\ \A s \in Bound :
       /\ "standard" \in DOMAIN instances
       /\ sessions[s].device = instances["standard"]
       /\ devs[sessions[s].device].closes = 0
  /\ Refcount("standard") = Cardinality(Bound) + PendingReleases("standard")
  /\ Cardinality(Bound) = 2 /\ PendingReleases("standard") = 0 => Refcount("standard") = 2
  /\ \A i \in 1..Len(devs) : devs[i].closes = (IF "standard" \in DOMAIN instances THEN 0 ELSE 1)

C2_Step ==
  /\ Refcount("standard") = 2 /\ Refcount("standard")' = 1 =>
       /\ "standard" \in DOMAIN instances'
       /\ instances'["standard"] = instances["standard"]
       /\ devs' = devs
  /\ Refcount("standard") = 1 /\ Refcount("standard")' = 0 =>
       /\ instances' = Empty
       /\ devs'[1].closes = 1

\* C2: when two sessions have sent CONNECT("standard") with both acquisitions
\* pending together, the sessions that are bound share the one device ever
\* constructed and the refcount is the number of bound sessions plus the
\* releases still queued (2 with both bound); the release that takes the
\* refcount from 2 to 1 leaves that device live and not closed, and the one
\* that takes it to 0 removes it and closes it, once.
C2_SharedDevice == [](C2_Inv) /\ [][C2_Step]_vars

\* Both sessions were bound to the device and have sent DISCONNECT, both
\* releases have run, and the one device constructed was closed once.
C2_Witness ==
  /\ Cardinality(DOMAIN sessions) = 2
  /\ \A s \in DOMAIN sessions :
       sessions[s].device_type = "standard" /\ sessions[s].device = NoDevice
  /\ tasks = <<>>
  /\ Len(devs) = 1 /\ devs[1].closes = 1
  /\ instances = Empty

\* The sessions bound to a device of the type a key names.
BoundTo(key) ==
  {s \in DOMAIN sessions :
     sessions[s].device # NoDevice /\ Lower(sessions[s].device_type) = key}

\* C3: the address -> session id map is a bijection over the active sessions:
\* every active session has exactly one address entry, no two addresses name
\* the same session, and no entry names a session that is not active.
C3_AddrMapBijection ==
  /\ \A a \in DOMAIN addr_to_session : addr_to_session[a] \in DOMAIN sessions
  /\ \A s \in DOMAIN sessions :
       Cardinality({a \in DOMAIN addr_to_session : addr_to_session[a] = s}) = 1

\* C4: the session ids handed out are strictly increasing in the order of
\* their HELLOs, the first is 1000, every session of the table got its id
\* that way, and the id the next HELLO gets was never handed out, so none is
\* given to a second session, ended sessions included.
C4_SessionIdsUnique ==
  /\ \A i \in 1..Len(issued) : \A j \in 1..Len(issued) : i < j => issued[i] < issued[j]
  /\ issued # <<>> => issued[1] = FirstSessionId
  /\ DOMAIN sessions \subseteq {issued[i] : i \in 1..Len(issued)}
  /\ \A i \in 1..Len(issued) : issued[i] < next_session_id

\* Three HELLOs were answered and one of the sessions has ended since.
C4_Witness ==
  /\ Len(issued) = 3
  /\ Cardinality(DOMAIN sessions) = 2
  /\ sent # <<>> /\ sent[1].msg_type = "WELCOME" /\ sent[1].session_id = issued[3]

C5_Step ==
  \A addr \in Addrs :
    Hello(addr, TRUE) =>
      /\ next_session_id \notin DOMAIN sessions
      /\ next_session_id \in DOMAIN sessions'
      /\ sessions'[next_session_id].client_addr = addr
      /\ addr \in DOMAIN addr_to_session'
      /\ addr_to_session'[addr] = next_session_id
      /\ sent' = send_welcome(addr, next_session_id)

\* C5: in every reachable state and from every address, handling a HELLO with
\* a well-formed payload creates a session with the next session id, records
\* the sender's address for it and sends back exactly one WELCOME carrying
\* that id.
C5_HelloCreatesSession == [][C5_Step]_vars

C6_Step ==
  \A addr \in Addrs : \A s \in DOMAIN sessions :
    SessionEnd(addr, s) =>
      /\ s \notin DOMAIN sessions'
      /\ \A a \in DOMAIN addr_to_session' : addr_to_session'[a] # s
      /\ \A a \in DOMAIN addr_to_session :
           addr_to_session[a] # s =>
             a \in DOMAIN addr_to_session' /\ addr_to_session'[a] = addr_to_session[a]
      /\ \A x \in DOMAIN sessions \ {s} : x \in DOMAIN sessions' /\ sessions'[x] = sessions[x]
      /\ tasks' = (IF sessions[s].device # NoDevice
                     THEN Append(tasks, ReleaseTask(sessions[s].device_type))
                     ELSE tasks)
      /\ sent' = <<>>

\* C6: handling SESSION_END for an active session s, from any address, removes
\* s from the table, leaves no address entry that names s, leaves the entries
\* of the other sessions as they were, schedules one release of the device
\* type s was bound to, if it was bound, and sends nothing.
C6_SessionEndCleansUp == [][C6_Step]_vars

\* C7: in every state with no acquisition or release pending, the refcount of
\* every device type is the number of active sessions bound to that type.
C7_RefcountMatchesBound ==
  tasks = <<>> => \A key \in constructors : Refcount(key) = Cardinality(BoundTo(key))

\* C8: once every session that sent CONNECT has sent DISCONNECT after it and
\* all scheduled tasks have run, the registry holds no device and every device
\* constructed was closed.
C8_NoDeviceLeft ==
  tasks = <<>> /\ undisconnected = {} =>
    /\ instances = Empty
    /\ \A i \in 1..Len(devs) : devs[i].closes >= 1

\* C9: after the last session bound to "standard" has sent DISCONNECT (a
\* session that was bound to it has disconnected and none is bound to it
\* now), once the scheduled tasks have run the refcount of "standard" is 0,
\* get("standard") finds no device and every "standard" device was closed
\* exactly once.
C9_LastDisconnectDestroys ==
  ( /\ tasks = <<>>
    /\ BoundTo("standard") = {}
    /\ \E s \in DOMAIN sessions \ undisconnected :
         sessions[s].device = NoDevice /\ Lower(sessions[s].device_type) = "standard" )
  => /\ Refcount("standard") = 0
     /\ get(instances, "standard") = NoDevice
     /\ \A i \in 1..Len(devs) : devs[i].key = "standard" => devs[i].closes = 1

\* C10: for every sequence of N BUTTON records with button-kind control codes,
\* once the BATCH with event_count = N and the records concatenated and the N
\* BUTTON datagrams of the same records have been handled for the same
\* session, the BATCH has made the same set_button calls in the same order as
\* the N datagrams together, one per record when a device is bound, it has
\* discarded no byte and, the session being known, it has taken N events.
C10_BatchOfButtons ==
  batch_out.done /\ single_out.n = Len(records) =>
    /\ batch_out.calls = single_out.calls
    /\ batch_out.discarded = 0
    /\ FirstSessionId \in DOMAIN sessions => batch_out.events_processed = Len(records)
    /\ FirstSessionId \in DOMAIN sessions /\ sessions[FirstSessionId].device # NoDevice =>
         /\ Len(batch_out.calls) = Len(records)
         /\ \A i \in 1..Len(records) : batch_out.calls[i].method = "set_button"

\* Three records, not all the same, were sent both ways to a session bound to
\* a device, and three calls were made each way.
C10_Witness ==
  /\ batch_out.done
  /\ single_out.n = Len(records)
  /\ Len(records) = 3
  /\ records[1] # records[2]
  /\ Len(single_out.calls) = 3
  /\ batch_out.calls[3].pressed

\* Both ways of sending the records of the run are done, to a known session.
BothSent ==
  /\ batch_out.done
  /\ single_out.n = Len(records)
  /\ FirstSessionId \in DOMAIN sessions
RecordTypes == {records[i].type : i \in 1..Len(records)}
\* The BATCH was decoded into the events of the run, in order, and made the
\* device calls the single datagrams made.
DecodedAsSent ==
  /\ Len(batch_out.events) = Len(records)
  /\ \A i \in 1..Len(records) : batch_out.events[i].rule = RuleOf(records[i].type)
  /\ batch_out.calls = single_out.calls

\* C11: a BATCH of N mouse sub-events (MOUSE_MOVE, MOUSE_BUTTON with a mouse
\* button code, MOUSE_SCROLL, in any order) is decoded into exactly those N
\* events in order and makes the device calls that the N events make when
\* sent as single MOUSE_MOVE / MOUSE_BUTTON / MOUSE_SCROLL datagrams.
C11_BatchOfMouseEvents ==
  BothSent /\ RecordTypes \subseteq {"MOUSE_MOVE", "MOUSE_BUTTON", "MOUSE_SCROLL"}
    => DecodedAsSent

\* C12: a BATCH of N gamepad records, each a 5-byte BUTTON record with a
\* button code or a 6-byte AXIS record with an axis code, in any mix and
\* order, is decoded into exactly those N events in order, discards nothing,
\* and makes the device calls the N single BUTTON / AXIS datagrams make.
C12_BatchOfGamepadRecords ==
  BothSent /\ RecordTypes \subseteq {"BUTTON", "AXIS"}
    => DecodedAsSent /\ batch_out.discarded = 0

\* An AXIS record between two BUTTON records was sent both ways to a session
\* bound to a device, and three calls were made each way.
C12_Witness ==
  /\ BothSent
  /\ Len(records) = 3
  /\ records[1].type = "BUTTON" /\ records[2].type = "AXIS" /\ records[3].type = "BUTTON"
  /\ Len(batch_out.calls) = 3
  /\ batch_out.calls[2].method = "set_axis"

\* The five interpretations in the order of their priority, the bytes each
\* takes, and the test each makes of the bytes at an offset.
RuleOrder == <<"button", "axis", "mouse_move", "mouse_button", "mouse_scroll">>
RuleSize(rule) ==
  CASE rule = "button" -> 5
    [] rule = "axis" -> 6
    [] rule \in {"mouse_move", "mouse_scroll"} -> 4
    [] rule = "mouse_button" -> 3
    [] rule = "none" -> 1
Validates(rule, p, o) ==
  /\ o + RuleSize(rule) <= Len(p)
  /\ LET v0 == i16(p[o + 1], p[o + 2])
         w0 == u16(p[o + 1], p[o + 2])
     IN CASE rule = "button" ->
               LET c == u16(p[o + 3], p[o + 4]) IN
               c \in DOMAIN CONTROL_CODE_MAP /\ CONTROL_CODE_MAP[c].kind = "button"
          [] rule = "axis" ->
               LET c == u16(p[o + 3], p[o + 4]) IN
               c \in DOMAIN CONTROL_CODE_MAP /\ CONTROL_CODE_MAP[c].kind = "axis"
          [] rule = "mouse_move" ->
               LET v1 == i16(p[o + 3], p[o + 4]) IN
               0 - 1000 <= v0 /\ v0 <= 1000 /\ 0 - 1000 <= v1 /\ v1 <= 1000
          [] rule = "mouse_button" -> w0 \in {513, 514, 515}
          [] rule = "mouse_scroll" ->
               LET v1 == i16(p[o + 3], p[o + 4]) IN
               /\ v0 # 0 \/ v1 # 0
               /\ 0 - 100 <= v0 /\ v0 <= 100 /\ 0 - 100 <= v1 /\ v1 <= 100
FirstValid(p, o) ==
  IF \E k \in 1..5 : Validates(RuleOrder[k], p, o)
  THEN RuleOrder[CHOOSE k \in 1..5 :
                   /\ Validates(RuleOrder[k], p, o)
                   /\ \A j \in 1..(k - 1) : ~Validates(RuleOrder[j], p, o)]
  ELSE "none"

RECURSIVE CallsOf(_, _, _)
CallsOf(events, p, session_id) ==
  IF events = <<>> THEN <<>>
  ELSE LET e == Head(events) IN
       batch_event(e.rule, SubSeq(p, e.offset + 1, e.offset + RuleSize(e.rule)), session_id)
         \o CallsOf(Tail(events), p, session_id)

\* C13: for a known session the decoder, at every offset it reaches, takes
\* the first of BUTTON (5 bytes, button code), AXIS (6 bytes, axis code),
\* MOUSE_MOVE (4 bytes, both deltas within 1000), MOUSE_BUTTON (3 bytes, one
\* of the three mouse button codes), MOUSE_SCROLL (4 bytes, one value nonzero,
\* both within 100) that has its bytes and passes its test, applies that one
\* only, and moves on by its size (by one byte when none passes), from offset
\* 1 until event_count rounds are done or the payload is used up; so the
\* decoded events are fixed by the payload bytes.
C13_PriorityChain ==
  batch_out.done /\ FirstSessionId \in DOMAIN sessions =>
    LET p == records[1].bytes
        ev == batch_out.events
    IN /\ ev # <<>> => ev[1].offset = 1
       /\ \A k \in 1..Len(ev) :
            /\ ev[k].offset < Len(p)
            /\ ev[k].rule = FirstValid(p, ev[k].offset)
            /\ k < Len(ev) => ev[k + 1].offset = ev[k].offset + RuleSize(ev[k].rule)
       /\ Len(ev) <= p[1]
       /\ \/ Len(ev) = p[1]
          \/ (IF ev = <<>> THEN 1 ELSE ev[Len(ev)].offset + RuleSize(ev[Len(ev)].rule)) >= Len(p)
       /\ batch_out.calls = CallsOf(ev, p, FirstSessionId)

\* A payload was decoded as a MOUSE_BUTTON event (where MOUSE_MOVE failed)
\* followed by a discarded byte, for a session bound to a device.
C13_Witness ==
  /\ batch_out.done
  /\ FirstSessionId \in DOMAIN sessions
  /\ sessions[FirstSessionId].device # NoDevice
  /\ Len(batch_out.events) >= 2
  /\ batch_out.events[1].rule = "mouse_button"
  /\ batch_out.events[2].rule = "none"
  /\ Len(batch_out.calls) = 1

\* The payloads of the input events whose control code is not in the table
\* or is in it with another kind than the message needs.
NotOfKind(payload, at, kind) ==
  Len(payload) >= at + 2 /\ ~IsKind(u16(At(payload, at), At(payload, at + 1)), kind)
Silent ==
  /\ device_calls' = <<>>
  /\ sent' = <<>>
  /\ UNCHANGED <<sessions, addr_to_session, next_session_id, tasks, regVars>>
C14_Step ==
  \A addr \in Addrs : \A s \in Bound :
    /\ \A payload \in ButtonPayloads :
         Len(payload) >= 5 /\ NotOfKind(payload, 2, "button") /\ Button(addr, s, payload)
           => Silent
    /\ \A payload \in AxisPayloads :
         Len(payload) >= 6 /\ NotOfKind(payload, 2, "axis") /\ Axis(addr, s, payload)
           => Silent
    /\ \A payload \in MouseButtonPayloads :
         Len(payload) >= 3 /\ NotOfKind(payload, 0, "button") /\ MouseButton(addr, s, payload)
           => Silent

\* C14: a BUTTON, AXIS or MOUSE_BUTTON message for a session bound to a
\* device, from any address, whose control code is not in the control code
\* table or is in it with the wrong kind, makes no call on the device, sends
\* no frame, and leaves the session tables, the task queue and the registry
\* as they were.
C14_SilentNoOp == [][C14_Step]_vars

\* The step sent one ERROR frame, to addr.
ErrorTo(addr) == Len(sent') = 1 /\ sent'[1].msg_type = "ERROR" /\ sent'[1].to = addr

C15_Step ==
  /\ \A addr \in Addrs : Hello(addr, FALSE) => ErrorTo(addr)
  /\ \A addr \in Addrs, sid \in SessionIds :
       /\ \A payload \in DeviceTypes \cup {Malformed} :
            (sid \notin DOMAIN sessions \/ payload = Malformed) /\ Connect(addr, sid, payload)
              => ErrorTo(addr)
       /\ sid \notin DOMAIN sessions /\ Disconnect(addr, sid) => ErrorTo(addr)
       /\ sid \notin DOMAIN sessions /\ SessionEnd(addr, sid) => ErrorTo(addr)
       /\ \A payload \in ButtonPayloads :
            (sid \notin DOMAIN sessions \/ Len(payload) < 5) /\ Button(addr, sid, payload)
              => ErrorTo(addr)
       /\ \A payload \in AxisPayloads :
            (sid \notin DOMAIN sessions \/ Len(payload) < 6) /\ Axis(addr, sid, payload)
              => ErrorTo(addr)
       /\ \A payload \in MouseMovePayloads :
            (sid \notin DOMAIN sessions \/ Len(payload) < 4) /\ MouseMove(addr, sid, payload)
              => ErrorTo(addr)
       /\ \A payload \in MouseButtonPayloads :
            (sid \notin DOMAIN sessions \/ Len(payload) < 3) /\ MouseButton(addr, sid, payload)
              => ErrorTo(addr)
       /\ \A payload \in MouseScrollPayloads :
            (sid \notin DOMAIN sessions \/ Len(payload) < 4) /\ MouseScroll(addr, sid, payload)
              => ErrorTo(addr)
       /\ \A payload \in BatchPayloads :
            (sid \notin DOMAIN sessions \/ Len(payload) < 1) /\ Batch(addr, sid, payload)
              => ErrorTo(addr)
  /\ \A ctorOk \in BOOLEAN :
       /\ tasks # <<>>
       /\ Head(tasks).kind = "connect"
       /\ acquire(instances, client_counts, devs, Head(tasks).device_type, ctorOk).raised # NoError
       /\ RunTaskWith(ctorOk)
       => ErrorTo(Head(tasks).addr)

\* C15: every datagram whose handling fails (a malformed HELLO or CONNECT
\* payload, a session id that names no session in CONNECT, DISCONNECT,
\* SESSION_END or an input event, an input event payload that is too short)
\* and every failed device acquisition makes the engine send one ERROR frame
\* to the address the datagram came from.
C15_EveryFailureAnswered == [][C15_Step]_vars

\* A datagram of the supported version from addr, of any message type.
Dispatched(addr) ==
  \/ \E wellFormed \in BOOLEAN : Hello(addr, wellFormed)
  \/ \E sid \in SessionIds :
       \/ \E payload \in DeviceTypes \cup {Malformed} : Connect(addr, sid, payload)
       \/ Disconnect(addr, sid)
       \/ SessionEnd(addr, sid)
       \/ Ping(addr, sid)
       \/ UnknownMessage(addr, sid)
       \/ \E event \in InputEvents : Input(addr, sid, event)

\* Every datagram can be handled in every state (until the model's count of
\* datagrams is used up).
C16_Inv ==
  received < MaxDatagrams =>
    \A addr \in Addrs :
      /\ ENABLED TooShort(addr)
      /\ ENABLED BadVersion(addr)
      /\ \A wellFormed \in BOOLEAN : ENABLED Hello(addr, wellFormed)
      /\ \A sid \in SessionIds :
           /\ \A payload \in DeviceTypes \cup {Malformed} : ENABLED Connect(addr, sid, payload)
           /\ ENABLED Disconnect(addr, sid)
           /\ ENABLED SessionEnd(addr, sid)
           /\ ENABLED Ping(addr, sid)
           /\ ENABLED UnknownMessage(addr, sid)
           /\ \A event \in InputEvents : ENABLED Input(addr, sid, event)

C16_Step ==
  \A addr \in Addrs :
    /\ TooShort(addr) => sent' = <<>> /\ UNCHANGED <<engineVars, regVars>>
    /\ StaleAddr(addr) /\ Dispatched(addr) =>
         /\ sent' = <<Frame(addr, "ERROR", 0, "InternalError")>>
         /\ device_calls' = <<>>
         /\ UNCHANGED <<engineVars, regVars>>

\* C16: a datagram of any length and any content can be handled in every
\* reachable state, whatever was handled before; a datagram shorter than the
\* header is dropped; and when handling raises at the dispatch boundary (the
\* sender's address entry names a session that is gone), the engine sends
\* ERROR("InternalError") to the sender and changes nothing.
C16_NoExceptionEscapes == [](C16_Inv) /\ [][C16_Step]_vars

\* The catch-all answered the third or a later datagram: the sender's address
\* entry is stale and the reply is ERROR("InternalError").
C16_Witness ==
  /\ \E addr \in Addrs :
       StaleAddr(addr) /\ sent = <<Frame(addr, "ERROR", 0, "InternalError")>>
  /\ received >= 3
  /\ received < MaxDatagrams

\* The reply the acquisition task of a CONNECT gives.
ConnectReply(t, bound) ==
  IF bound THEN <<Frame(t.addr, "STATUS", t.sid, "device connected")>>
  ELSE <<Frame(t.addr, "ERROR", t.sid, "ConnectFailed")>>
C17_Step ==
  \A ctorOk \in BOOLEAN :
    tasks # <<>> /\ Head(tasks).kind = "connect" /\ RunTaskWith(ctorOk) =>
      LET t == Head(tasks)
          bound == /\ t.sid \in DOMAIN sessions'
                   /\ sessions'[t.sid].device # NoDevice
                   /\ Lower(t.device_type) \in DOMAIN instances'
                   /\ sessions'[t.sid].device = instances'[Lower(t.device_type)]
                   /\ devs' # devs \/ client_counts' # client_counts
      IN sent' = ConnectReply(t, bound)

\* C17: a CONNECT for an existing session with a well-formed payload, whatever
\* device type string it carries, queues an acquisition task; the task
\* eventually runs, and when it runs it sends exactly one frame to the sender
\* of the CONNECT: STATUS "device connected" if it bound the session to the
\* device it acquired, and ERROR("ConnectFailed") if it did not.
C17_ConnectIsAnswered ==
  /\ [][C17_Step]_vars
  /\ (tasks # <<>> /\ Head(tasks).kind = "connect")
       ~> (Len(sent) = 1 /\ sent[1].info \in {"device connected", "ConnectFailed"})

C18_Step ==
  \A addr \in Addrs, sid \in SessionIds, payload \in DeviceTypes \cup {Malformed} :
    sid \notin DOMAIN sessions /\ Connect(addr, sid, payload) =>
      /\ ErrorTo(addr)
      /\ tasks' = tasks
      /\ UNCHANGED <<sessions, addr_to_session, next_session_id, regVars>>

\* C18: a CONNECT whose header session_id names no active session, from any
\* address and with any payload, is answered with one ERROR frame to the
\* sender, queues no acquisition task, and leaves the session table, the
\* address table and the registry (instances and client counts) as they were.
C18_ConnectUnknownSession == [][C18_Step]_vars

\* Such a CONNECT was answered while a session existed.
C18_Witness ==
  /\ sessions # Empty
  /\ \E addr \in Addrs :
       sent = <<Frame(addr, "ERROR", FirstSessionId - 1, "ConnectFailed")>>

\* The device types of the model that have no constructor.
Unsupported == {name \in DeviceTypes \cup {LongType} : Lower(name) \notin constructors}

\* A direct acquire of an unsupported type raises and leaves the registry as
\* it is.
C19_Inv ==
  \A name \in Unsupported, ctorOk \in BOOLEAN :
    acquire(instances, client_counts, devs, name, ctorOk)
      = Reg(instances, client_counts, devs, UnknownType, NoDevice)

C19_Step ==
  \A ctorOk \in BOOLEAN :
    /\ tasks # <<>>
    /\ Head(tasks).kind = "connect"
    /\ Head(tasks).device_type \in Unsupported
    /\ RunTaskWith(ctorOk)
    => /\ UNCHANGED <<regVars, sessions>>
       /\ sent' = <<Frame(Head(tasks).addr, "ERROR", Head(tasks).sid, "ConnectFailed")>>

\* C19: acquiring a device type that has no constructor raises without
\* constructing a device or changing a client count, and the task of a
\* CONNECT that names such a type leaves the session's device and device_type
\* as they were and sends ERROR("ConnectFailed") to the sender of the CONNECT.
C19_UnsupportedTypeFails == [](C19_Inv) /\ [][C19_Step]_vars

C20_Step ==
  \A addr \in Addrs :
    BadVersion(addr) =>
      /\ sent' = <<Frame(addr, "ERROR", 0, "UnsupportedVersion")>>
      /\ seen' = 0
      /\ device_calls' = <<>>
      /\ UNCHANGED <<sessions, addr_to_session, next_session_id, tasks, regVars>>

\* C20: a datagram of 12 bytes or more whose version byte is not the
\* supported one, from any address, is answered with exactly one ERROR frame
\* with session_id 0 to the sender; no session is created or removed, no
\* last_seen is set, no task is queued, no device is bound, released or
\* called, and the registry stays as it is.
C20_VersionMismatch == [][C20_Step]_vars

\* A datagram of another version came from an address that has a session
\* (whose last_seen a datagram of the supported version would have set).
C20_Witness ==
  \E addr \in DOMAIN addr_to_session :
    /\ addr_to_session[addr] \in DOMAIN sessions
    /\ sessions[addr_to_session[addr]].device # NoDevice
    /\ sent = <<Frame(addr, "ERROR", 0, "UnsupportedVersion")>>
    /\ seen = 0

C21_Step ==
  \A addr \in Addrs, sid \in SessionIds :
    Ping(addr, sid) =>
      /\ sent' = <<Frame(addr, "PONG", sid, "")>>
      /\ UNCHANGED <<sessions, addr_to_session, next_session_id>>

\* C21: in every reachable state a PING of the supported version, from any
\* address and with any header session_id, is answered with exactly one PONG
\* to the sender that carries the same session_id, and no session is created,
\* removed or rebound.
C21_PingIsAnswered == [][C21_Step]_vars

C22_Step ==
  \A s \in DOMAIN sessions :
    (s \notin DOMAIN sessions' \/ sessions'[s].client_addr # sessions[s].client_addr)
      => \E addr \in Addrs : SessionEnd(addr, s)

C23_Step ==
  \A addr \in Addrs, sid \in DOMAIN sessions :
    /\ \A payload \in ButtonPayloads :
         Button(addr, sid, payload) => device_calls' = handle_button(payload, sid)
    /\ \A payload \in AxisPayloads :
         Axis(addr, sid, payload) => device_calls' = handle_axis(payload, sid)
    /\ \A payload \in MouseMovePayloads :
         MouseMove(addr, sid, payload) => device_calls' = handle_mouse_move(payload, sid)
    /\ \A payload \in MouseButtonPayloads :
         MouseButton(addr, sid, payload) => device_calls' = handle_mouse_button(payload, sid)
    /\ \A payload \in MouseScrollPayloads :
         MouseScroll(addr, sid, payload) => device_calls' = handle_mouse_scroll(payload, sid)
    /\ \A payload \in BatchPayloads :
         Batch(addr, sid, payload) => device_calls' = handle_batch(payload, sid).calls
    /\ \A payload \in DeviceTypes :
         Connect(addr, sid, payload) =>
           /\ Len(tasks') = Len(tasks) + 1
           /\ tasks'[Len(tasks')].kind = "connect"
           /\ tasks'[Len(tasks')].sid = sid
           /\ tasks'[Len(tasks')].device_type = payload
    /\ Disconnect(addr, sid) =>
         IF sessions[sid].device # NoDevice /\ sessions[sid].device_type # ""
         THEN /\ tasks' = Append(tasks, ReleaseTask(sessions[sid].device_type))
              /\ sessions'[sid].device = NoDevice
         ELSE tasks' = tasks /\ sessions' = sessions
    /\ SessionEnd(addr, sid) => sid \notin DOMAIN sessions'

\* C23: CONNECT, DISCONNECT, SESSION_END, the input events and BATCH do to the
\* session named by the header session_id the same thing whatever address
\* they come from: the same device calls, the same acquisition or release
\* queued, the same session removed.
C23_SenderMakesNoDifference == [][C23_Step]_vars

\* The device calls of the first n records, each handled once, in the order
\* of the records, whatever their seq.
RECURSIVE InOrder(_)
InOrder(n) ==
  IF n = 0 THEN <<>>
  ELSE InOrder(n - 1) \o dispatch_event(records[n].type, records[n].bytes, FirstSessionId)

C24_Inv == single_out.calls = InOrder(single_out.n)
C24_Step ==
  single_out'.n # single_out.n =>
    /\ device_calls' = dispatch_event(records[single_out'.n].type, records[single_out'.n].bytes,
                                      FirstSessionId)
    /\ UNCHANGED <<sessions, addr_to_session, next_session_id, tasks, regVars>>

\* C24: the input events are applied to the device once each, in the order
\* in which their datagrams are received, whatever the seq values of the
\* headers (equal, decreasing or skipped); handling them changes no session
\* table and no registry state, so runs that differ in seq only agree on the
\* tables, the registry and the device calls.
C24_ArrivalOrder == [](C24_Inv) /\ [][C24_Step]_vars

\* Three events with seq 2, 2, 0 were applied to a bound device.
C24_Witness ==
  /\ single_out.n = 3
  /\ records[1].seq = 2 /\ records[2].seq = 2 /\ records[3].seq = 0
  /\ records[1].bytes # records[2].bytes
  /\ Len(single_out.calls) = 3

\* The value of the AXIS message of the run, as a signed 16-bit integer, and
\* the value set_axis got, in units of 1/32767.
AxisValue ==
  LET u == records[1].bytes[5] + 256 * records[1].bytes[6] IN
  IF u < 32768 THEN u ELSE u - 65536
AxisSet == single_out.calls[1].a
AxisApplied ==
  /\ single_out.n = 1
  /\ FirstSessionId \in DOMAIN sessions
  /\ sessions[FirstSessionId].device # NoDevice

\* C25: for every 16-bit value v of an AXIS message with an axis code on a
\* bound session, set_axis is called once with v/32767 clamped to [-1, 1]:
\* 32767 gives 1, -32768 gives -1, 0 gives 0, every other v gives v/32767,
\* and the result lies in [-1, 1].
C25_AxisNormalized ==
  AxisApplied =>
    /\ Len(single_out.calls) = 1
    /\ single_out.calls[1].method = "set_axis"
    /\ single_out.calls[1].name = "lx"
    /\ 0 - 32767 <= AxisSet /\ AxisSet <= 32767
    /\ AxisValue = 32767 => AxisSet = 32767
    /\ AxisValue = 0 - 32768 => AxisSet = 0 - 32767
    /\ AxisValue = 0 => AxisSet = 0
    /\ AxisValue > 0 - 32768 => AxisSet = AxisValue

\* The value -32768 was applied and clamped.
C25_Witness == AxisApplied /\ AxisValue = 0 - 32768 /\ AxisSet = 0 - 32767

\* C26: every WELCOME carries the same payload after the session id: the
\* accepted capabilities ACK, TIMESTAMP and BATCH, and a catalogue of one
\* entry, ("standard", 0), whatever the HELLO asked for or named and whatever
\* the registry holds.
C26_WelcomeIsStatic ==
  \A k \in 1..Len(sent) :
    sent[k].msg_type = "WELCOME" =>
      /\ sent[k].accepted_caps = CAP_ACK + CAP_TIMESTAMP + CAP_BATCH
      /\ sent[k].devices = <<[device_type |-> "standard", device_id |-> 0]>>
\* A second session is welcomed while the registry holds a live instance,
\* and none of type "standard".
C26_Witness ==
  /\ Len(sent) = 1 /\ sent[1].msg_type = "WELCOME"
  /\ Len(issued) >= 2
  /\ "standard" \notin DOMAIN instances
  /\ instances # Empty

\* C27: a session for which a DISCONNECT was handled, and no CONNECT was
\* received since, has no device; so has a session that never sent CONNECT.
\* A CONNECT received before the DISCONNECT and still queued does not bind
\* the session afterwards.
C27_DisconnectedStaysUnbound ==
  \A s \in DOMAIN sessions : s \notin undisconnected => sessions[s].device = NoDevice

\* C28: the step that handles DISCONNECT or SESSION_END for a bound session
\* (the session loses its device or leaves the table) has released the
\* device in the registry by the time it ends: the refcount is one less, and
\* the instance is closed and removed if it was the last reference.
C28_Step ==
  \A s \in DOMAIN sessions :
    ( /\ sessions[s].device # NoDevice
      /\ s \in DOMAIN sessions' => sessions'[s].device = NoDevice )
    => LET r == release(instances, client_counts, devs, sessions[s].device_type) IN
       /\ instances' = r.instances
       /\ client_counts' = r.client_counts
       /\ devs' = r.devs
C28_ReleaseIsSynchronous == [][C28_Step]_vars

\* An acquisition for the session is queued and has not run.
AcquisitionPending(sid) ==
  \E k \in 1..Len(tasks) : tasks[k].kind = "connect" /\ tasks[k].sid = sid

\* C29: the step that handles CONNECT leaves every session's device and the
\* registry as they were, and an input event for a session whose acquisition
\* is still pending makes no device call.
C29_Step ==
  /\ \A addr \in Addrs, sid \in SessionIds, payload \in DeviceTypes \cup {Malformed} :
       Connect(addr, sid, payload) =>
         /\ sessions' = sessions
         /\ <<instances', client_counts', devs'>> = <<instances, client_counts, devs>>
  /\ \A sid \in SessionIds :
       AcquisitionPending(sid) =>
         \A addr \in Addrs, event \in InputEvents :
           Input(addr, sid, event) => device_calls' = <<>>
C29_ConnectNeverBindsAtOnce == [][C29_Step]_vars

\* C30: the device an active session holds is the instance the registry
\* keeps under the session's device type, and close() was not called on it.
C30_BoundDeviceIsLive ==
  \A s \in DOMAIN sessions :
    sessions[s].device # NoDevice =>
      /\ Lower(sessions[s].device_type) \in DOMAIN instances
      /\ instances[Lower(sessions[s].device_type)] = sessions[s].device
      /\ devs[sessions[s].device].closes = 0
\* A session holds a device of a type of which another instance was closed
\* before.
C30_Witness ==
  \E s \in DOMAIN sessions :
    /\ sessions[s].device # NoDevice
    /\ \E i \in 1..Len(devs) :
         /\ devs[i].closes >= 1
         /\ devs[i].key = Lower(sessions[s].device_type)

\* C31: the decoding of a BATCH payload ends after at most event_count
\* rounds; each round starts inside the payload at an offset greater than
\* the one before, by exactly one where no rule validated; and the events
\* applied plus the bytes discarded are at most event_count.
C31_DecodingTerminates ==
  batch_out.done =>
    LET payload == records[1].bytes
        events == batch_out.events
    IN /\ Len(events) <= At(payload, 0)
       /\ \A k \in 1..Len(events) :
            /\ events[k].offset >= 1 /\ events[k].offset < Len(payload)
            /\ k < Len(events) =>
                 /\ events[k + 1].offset > events[k].offset
                 /\ events[k].rule = "none" => events[k + 1].offset = events[k].offset + 1
       /\ batch_out.discarded = Cardinality({k \in 1..Len(events) : events[k].rule = "none"})
       /\ batch_out.events_processed + batch_out.discarded = Len(events)
       /\ batch_out.events_processed + batch_out.discarded <= At(payload, 0)
\* A payload of event_count 2 whose first round discards a byte and whose
\* second applies an event, with bytes left after it.
C31_Witness ==
  /\ batch_out.done
  /\ At(records[1].bytes, 0) = 2
  /\ batch_out.discarded = 1 /\ batch_out.events_processed = 1
  /\ batch_out.events[1].rule = "none"
  /\ batch_out.events[2].offset + event_size(batch_out.events[2].rule) < Len(records[1].bytes)

C33_InstancesMatchCounts ==
  /\ DOMAIN instances = DOMAIN client_counts
  /\ \A key \in DOMAIN client_counts : client_counts[key] >= 1
\* One type is live with two clients after a device of another type was
\* closed by the release of its last client.
C33_Witness ==
  /\ \E key \in DOMAIN instances : client_counts[key] = 2
  /\ \E i \in 1..Len(devs) : devs[i].closes = 1 /\ devs[i].key \notin DOMAIN instances
  /\ ret.op = "release"

\* C34: a BUTTON, AXIS, MOUSE_MOVE, MOUSE_BUTTON, MOUSE_SCROLL or BATCH
\* message for a session id that is not active, or for a session with no
\* device, makes no device call, sends no frame and leaves the session
\* tables, the task queue and the registry as they were.
C34_Step ==
  \A addr \in Addrs, sid \in SessionIds :
    (sid \notin DOMAIN sessions \/ sessions[sid].device = NoDevice) =>
      /\ \A payload \in ButtonPayloads : Button(addr, sid, payload) => Silent
      /\ \A payload \in AxisPayloads : Axis(addr, sid, payload) => Silent
      /\ \A payload \in MouseMovePayloads : MouseMove(addr, sid, payload) => Silent
      /\ \A payload \in MouseButtonPayloads : MouseButton(addr, sid, payload) => Silent
      /\ \A payload \in MouseScrollPayloads : MouseScroll(addr, sid, payload) => Silent
      /\ \A payload \in BatchPayloads : Batch(addr, sid, payload) => Silent
C34_EventWithoutDeviceIsDropped == [][C34_Step]_vars

\* A HELLO payload that is shorter than 4 bytes, or whose capability length
\* or name length exceeds the payload, or whose name is not UTF-8.
MalformedHello(payload) ==
  \/ Len(payload) < 4
  \/ 2 + (payload[1] + 256 * payload[2]) + 1 > Len(payload)
  \/ LET at == 2 + (payload[1] + 256 * payload[2]) + 1 IN
     \/ at + payload[at] > Len(payload)
     \/ \E k \in (at + 1)..(at + payload[at]) : payload[k] >= 128

\* C35: a HELLO with a malformed payload, from any address, creates no
\* session, adds no address entry, leaves the next session id as it was, and
\* is answered with one ERROR frame to the sender and no WELCOME.
C35_Step ==
  \A addr \in Addrs, payload \in HelloPayloads :
    MalformedHello(payload) /\ HelloWith(addr, payload) =>
      /\ sessions' = sessions
      /\ addr_to_session' = addr_to_session
      /\ next_session_id' = next_session_id
      /\ issued' = issued
      /\ Len(sent') = 1
      /\ sent'[1].msg_type = "ERROR"
      /\ sent'[1].to = addr
C35_MalformedHello == [][C35_Step]_vars
\* A malformed HELLO was answered with ERROR("InvalidMessage") after one
\* session was created, and the next id is the one after that session's.
C35_Witness ==
  /\ Len(sent) = 1 /\ sent[1].msg_type = "ERROR" /\ sent[1].info = "InvalidMessage"
  /\ issued = <<FirstSessionId>>
  /\ next_session_id = FirstSessionId + 1

\* C36: a message sent with the timestamp flag and the 8-byte extension is
\* handled as the same message sent without them: the same changes of the
\* session tables, the task queue and the registry, the same device calls,
\* and, PONG's echoed flags apart, the same frames.
C36_Step ==
  received' # received =>
    \A sid \in SessionIds, m \in WireMessages :
      LET plain == Encode(m, 0, sid, received)
          stamped == Encode(m, FLAG_HAS_TIMESTAMP, sid, received)
      IN IF m.msg_type = MSG_PING
         THEN Wire(PadAddr, stamped) \/ Wire(PadAddr, plain) =>
                /\ UNCHANGED <<sessions, addr_to_session, next_session_id, tasks, regVars>>
                /\ device_calls' = <<>>
         ELSE Wire(PadAddr, stamped) <=> Wire(PadAddr, plain)
C36_TimestampExtensionIsSkipped == [][C36_Step]_vars
\* A PING sent with the timestamp flag and the extension was answered for a
\* session bound to a device.
C36_Witness ==
  /\ Len(sent) = 1 /\ sent[1].msg_type = "PONG"
  /\ BitAnd(sent[1].flags, FLAG_HAS_TIMESTAMP) # 0
  /\ sent[1].session_id \in DOMAIN sessions
  /\ sessions[sent[1].session_id].device # NoDevice

\* C37: every frame sent whose flags have the timestamp bit set carries the
\* 8-byte extension between its header and its payload.
C37_SentFramesObeyHeaderRule ==
  \A k \in 1..Len(sent) :
    BitAnd(sent[k].flags, FLAG_HAS_TIMESTAMP) # 0 => sent[k].extension = 8

\* C38: a release for a type with no live instance, and a get for any type,
\* leave the instances, the refcounts and the devices as they were; and no
\* refcount is ever below 0.
C38_Inv == \A key \in DOMAIN client_counts : client_counts[key] >= 0
C38_Step ==
  received' # received =>
    /\ ret'.op = "release" /\ ret'.key \notin DOMAIN instances =>
         UNCHANGED <<instances, client_counts, devs>>
    /\ ret'.op = "get" =>
         /\ UNCHANGED <<instances, client_counts, devs>>
         /\ ret'.device = (IF ret'.key \in DOMAIN instances THEN instances[ret'.key]
                           ELSE NoDevice)
    /\ ret'.op = "release" => ret'.raised = NoError
C38_ReleaseAndGetNoOps == [](C38_Inv) /\ [][C38_Step]_vars
\* release was called for a type of which no device was ever constructed,
\* while a device of another type is live.
C38_Witness ==
  /\ ret.op = "release"
  /\ ret.key \notin DOMAIN instances
  /\ \A i \in 1..Len(devs) : devs[i].key # ret.key
  /\ instances # Empty

\* The references to a registry key the handlers hold: acquired and not yet
\* released.
RECURSIVE Held(_, _)
Held(cs, key) ==
  IF cs = {} THEN 0
  ELSE LET c == CHOOSE x \in cs : TRUE IN
       handlers[c].acquired[key] - handlers[c].released[key] + Held(cs \ {c}, key)

\* C40: a WebSocket handler that has finished has released every device it
\* acquired, by connect or by a button/axis event, once: per registry key it
\* made as many release calls as acquire calls, and the registry counts
\* exactly the references the handlers still hold; a connect for a device the
\* connection holds acquires nothing and a disconnect for one it does not
\* hold releases nothing.
C40_Inv ==
  /\ \A c \in DOMAIN handlers : \A key \in constructors :
       /\ handlers[c].released[key] <= handlers[c].acquired[key]
       /\ handlers[c].done => handlers[c].released[key] = handlers[c].acquired[key]
       /\ ~handlers[c].done =>
            handlers[c].acquired[key] - handlers[c].released[key]
              = Cardinality({n \in handlers[c].connected_devices : Lower(n) = key})
  /\ \A key \in constructors : Refcount(key) = Held(DOMAIN handlers, key)
C40_Step ==
  \A c \in DOMAIN handlers, name \in WebNames :
    /\ name \in handlers[c].connected_devices =>
         \A ctorOk \in BOOLEAN :
           WsConnect(c, name, ctorOk) => UNCHANGED <<instances, client_counts, devs, handlers>>
    /\ name \notin handlers[c].connected_devices =>
         (WsDisconnect(c, name) => UNCHANGED <<instances, client_counts, devs, handlers>>)
C39_Inv ==
  \A c \in DOMAIN handlers : \A key \in constructors :
    /\ handlers[c].released[key] <= handlers[c].acquired[key]
    /\ handlers[c].closed => handlers[c].released[key] = handlers[c].acquired[key]
C39_Step ==
  \A c \in DOMAIN handlers :
    (handlers[c].closed /\ RtcCleanup(c)) => UNCHANGED <<instances, client_counts, devs, handlers>>
C39_CleanupMatchesEveryAcquire == [](C39_Inv) /\ [][C39_Step]_vars
====
